---- MODULE Spec2Model ----
(***************************************************************************)
(* TaskFlow day planner: the task store (TaskManager) and the planner's    *)
(* scheduling operations (PlannerController): auto-schedule, quick-        *)
(* schedule, drag-to-timeline drop, unschedule and resize.                 *)
(*                                                                         *)
(* A time string ("08:00") is a sequence of one-character strings, so that *)
(* split(':'), Number(), parseInt() and padStart() are modelled by what    *)
(* they do.  null, undefined and "" are all the empty sequence: the        *)
(* planner only ever tests these values for truthiness.  A missing         *)
(* plannedDuration is 0, which `|| 30` treats like undefined.               *)
(***************************************************************************)
EXTENDS Integers, Sequences, FiniteSets, TLC

\* ---------------------------------------------------------------- bounds
\* Largest number of tasks the store holds in the model.
MaxTasks == 2
\* Tallest height in px a resize drag reaches in the model.
MaxHeight == 37
\* Largest store the scheduling engine is started on when checked on its own.
MaxStore == 3
\* Largest store quick-schedule is started on when checked on its own.
MaxQuickStore == 2

\* ------------------------------------------------------ program constants
timeSlotHeight == 60
startHour == 0
endHour == 24
workStartMins == 8 * 60
workEndMins == 20 * 60
\* The 16px header padding subtracted from a drop position.
headerPad == 16

\* null / undefined / "" (all falsy)
Null == <<>>
\* The result of Number() or parseInt() on text that is not a number.  No
\* number parsed from a time string of the model comes near this value.
NaN == 0 - 1000000

Truthy(s) == s # Null

\* ------------------------------------------------------- JS number helpers
IsNaN(x) == x = NaN
Plus(a, b) == IF IsNaN(a) \/ IsNaN(b) THEN NaN ELSE a + b
Times(a, b) == IF IsNaN(a) \/ IsNaN(b) THEN NaN ELSE a * b
\* a < b, a > b, a <= b, a >= b: false as soon as one side is NaN
Lt(a, b) == ~IsNaN(a) /\ ~IsNaN(b) /\ a < b
Gt(a, b) == ~IsNaN(a) /\ ~IsNaN(b) /\ a > b
Le(a, b) == ~IsNaN(a) /\ ~IsNaN(b) /\ a <= b
Ge(a, b) == ~IsNaN(a) /\ ~IsNaN(b) /\ a >= b

Digits == <<"0", "1", "2", "3", "4", "5", "6", "7", "8", "9">>
IsDigit(c) == \E d \in 1..10 : Digits[d] = c
DigitVal(c) == (CHOOSE d \in 1..10 : Digits[d] = c) - 1

RECURSIVE DecVal(_)
\* the value of a sequence of digit characters
DecVal(s) ==
  IF s = <<>> THEN 0
  ELSE 10 * DecVal(SubSeq(s, 1, Len(s) - 1)) + DigitVal(s[Len(s)])

\* Number(str): "" is 0, digits are their value, a minus sign before digits
\* negates it, anything else NaN
Number(s) ==
  IF \A i \in 1..Len(s) : IsDigit(s[i]) THEN DecVal(s)
  ELSE IF Len(s) >= 2 /\ s[1] = "-" /\ \A i \in 2..Len(s) : IsDigit(s[i])
       THEN 0 - DecVal(SubSeq(s, 2, Len(s)))
       ELSE NaN

RECURSIVE split(_)
\* str.split(':')
split(s) ==
  IF \A i \in 1..Len(s) : s[i] # ":" THEN <<s>>
  ELSE LET i == CHOOSE k \in 1..Len(s) :
                  s[k] = ":" /\ \A j \in 1..(k - 1) : s[j] # ":"
       IN <<SubSeq(s, 1, i - 1)>> \o split(SubSeq(s, i + 1, Len(s)))

\* const [h, m] = str.split(':').map(Number); h * 60 + m
\* (a missing second part is undefined, and h * 60 + undefined is NaN)
hoursOf(s) == Number(split(s)[1])
minutesOf(s) == IF Len(split(s)) >= 2 THEN Number(split(s)[2]) ELSE NaN
startMins(s) == Plus(Times(hoursOf(s), 60), minutesOf(s))

RECURSIVE toStr(_)
\* n.toString() for n >= 0
toStr(n) ==
  IF n < 10 THEN <<Digits[n + 1]>>
  ELSE toStr(n \div 10) \o <<Digits[(n % 10) + 1]>>

\* n.toString().padStart(2, '0')
padStart2(n) == IF Len(toStr(n)) < 2 THEN <<"0">> \o toStr(n) ELSE toStr(n)

\* `${h.toString().padStart(2, '0')}:${m.toString().padStart(2, '0')}`
timeString(h, m) == padStart2(h) \o <<":">> \o padStart2(m)

\* str.replace(':', ''): the first colon only
replaceColon(s) ==
  IF \A i \in 1..Len(s) : s[i] # ":" THEN s
  ELSE LET i == CHOOSE k \in 1..Len(s) :
                  s[k] = ":" /\ \A j \in 1..(k - 1) : s[j] # ":"
       IN SubSeq(s, 1, i - 1) \o SubSeq(s, i + 1, Len(s))

\* parseInt(str): the value of the leading digits, NaN when there are none
parseInt(s) ==
  LET n == IF \A i \in 1..Len(s) : IsDigit(s[i]) THEN Len(s)
           ELSE (CHOOSE k \in 1..Len(s) :
                   ~IsDigit(s[k]) /\ \A j \in 1..(k - 1) : IsDigit(s[j])) - 1
  IN IF n = 0 THEN NaN ELSE DecVal(SubSeq(s, 1, n))

\* Math.round(x / 15) * 15 for an integer x (Math.round is floor(v + 0.5))
round15(x) == ((2 * x + 15) \div 30) * 15

\* (mutant) the default taken as 15 minutes
durationOr15(t) == IF t.plannedDuration # 0 THEN t.plannedDuration ELSE 15

\* task.plannedDuration || 30
durationOr30(t) == IF t.plannedDuration # 0 THEN t.plannedDuration ELSE 30

\* ------------------------------------------------------------------ state
VARIABLES
  tasks,              \* the stored task collection (TaskManager.getTasks())
  toast,              \* the last notice shown by ToastManager.show
  draggedTask,        \* PlannerController.draggedTask: <<>> or <<task>>
  resizingTask,       \* PlannerController.resizingTask with the resize state
                      \* captured with it: <<>>, or <<r>> with r.task,
                      \* r.resizeStartY, r.resizeStartHeight, r.onTimeline
                      \* (the timeline holds an element for the task) and
                      \* r.offsetHeight, the height in px of that element
  pc,                 \* "idle", or "auto" inside autoScheduleTasks
  sortedUnscheduled,  \* autoScheduleTasks: the placement order
  idx,                \* autoScheduleTasks: forEach position (1-based)
  scheduled,          \* autoScheduleTasks: the committed set
  scheduledCount      \* autoScheduleTasks: tasks placed so far

vars == <<tasks, toast, draggedTask, resizingTask, pc, sortedUnscheduled, idx,
          scheduled, scheduledCount>>

planner == <<draggedTask, resizingTask>>
autoRun == <<pc, sortedUnscheduled, idx, scheduled, scheduledCount>>

\* new Date().toISOString().split('T')[0]
today == "2026-11-05"
otherDay == "2026-11-06"

validPriorities == {"low", "medium", "high"}

\* ----------------------------------------------------------------- inputs
T0700 == <<"0", "7", ":", "0", "0">>
T0800 == <<"0", "8", ":", "0", "0">>
T0900 == <<"0", "9", ":", "0", "0">>
T0930 == <<"0", "9", ":", "3", "0">>
T1945 == <<"1", "9", ":", "4", "5">>
T2330 == <<"2", "3", ":", "3", "0">>
T2400 == <<"2", "4", ":", "0", "0">>
TNeg1 == <<"-", "1", ":", "0", "0">>

\* What the user submits in the task form: priority, due date, preferred
\* time, duration hours and minutes.
TaskForms ==
  { [priority |-> "high",   dueDate |-> "", preferredTime |-> Null,  hours |-> 0, minutes |-> 0],
    [priority |-> "medium", dueDate |-> "", preferredTime |-> T0800, hours |-> 0, minutes |-> 30] }

\* Files a user imports: one task that is already on the timeline, and one
\* task whose duration is 5 minutes.
ImportFiles ==
  { << [id |-> 0, priority |-> "medium", dueDate |-> "", preferredTime |-> T0800,
        plannedStartTime |-> T0800, plannedDuration |-> 30, completed |-> FALSE] >>,
    << [id |-> 0, priority |-> "high", dueDate |-> "", preferredTime |-> Null,
        plannedStartTime |-> Null, plannedDuration |-> 5, completed |-> FALSE] >> }

\* Pointer positions of a drop, as e.clientY - rect.top + scrollTop.
DropYs == {0 - 30, 6, 496, 503, 1449}

\* Pointer positions during a resize (e.clientY).
ResizeGrabYs == {300}
ResizeMoveYs == {200, 307, 308}

\* Times a quick-schedule button can carry (data-time).
QuickTimes == {T0800}

\* ------------------------------------------------------------ TaskManager
nextId == Len(tasks) + 1

indexOf(ts, taskId) ==
  IF \E i \in 1..Len(ts) : ts[i].id = taskId
  THEN CHOOSE i \in 1..Len(ts) : ts[i].id = taskId /\ \A j \in 1..(i - 1) : ts[j].id # taskId
  ELSE 0

\* { ...tasks[index], ...updates }
merge(t, updates) ==
  [f \in DOMAIN t |-> IF f \in DOMAIN updates THEN updates[f] ELSE t[f]]

\* (mutant) the updates written to every task, not to the one found
updateTaskEvery(ts, taskId, updates) ==
  [j \in 1..Len(ts) |-> merge(ts[j], updates)]

\* TaskManager.updateTask(taskId, updates): the collection afterwards
updateTask(ts, taskId, updates) ==
  LET index == indexOf(ts, taskId)
  IN IF index = 0 THEN ts
     ELSE [ts EXCEPT ![index] = merge(ts[index], updates)]

\* TaskManager.createTask(taskData): the new task goes to the front
createTask(ts, taskData, id) ==
  <<[id |-> id,
     priority |-> IF taskData.priority # "" THEN taskData.priority ELSE "medium",
     dueDate |-> taskData.dueDate,
     preferredTime |-> taskData.preferredTime,
     plannedStartTime |-> Null,
     plannedDuration |-> IF taskData.plannedDuration # 0 THEN taskData.plannedDuration ELSE 30,
     completed |-> FALSE]>> \o ts

\* (mutant) the form submitted without the 15-minute floor
handleTaskSubmitNoFloor(form, taskId) ==
  LET priority == IF form.priority \in validPriorities THEN form.priority ELSE "medium"
      taskData == [priority |-> priority, dueDate |-> form.dueDate,
                   preferredTime |-> form.preferredTime,
                   plannedDuration |-> (form.hours * 60) + form.minutes]
  IN /\ pc = "idle" /\ draggedTask = Null /\ resizingTask = Null
     /\ IF taskId # 0
        THEN /\ indexOf(tasks, taskId) # 0
             /\ tasks' = updateTask(tasks, taskId, taskData)
             /\ toast' = <<"Task updated!">>
        ELSE /\ Len(tasks) < MaxTasks
             /\ tasks' = createTask(tasks, taskData, nextId)
             /\ toast' = <<"Task created!">>
     /\ UNCHANGED <<planner, autoRun>>

\* UIController.handleTaskSubmit: the task form submitted for the task the
\* modal was opened on (taskId), or for a new task (taskId 0: the empty id)
handleTaskSubmit(form, taskId) ==
  LET priority == IF form.priority \in validPriorities THEN form.priority ELSE "medium"
      raw == (form.hours * 60) + form.minutes
      duration == IF raw < 15 THEN 15 ELSE raw
      taskData == [priority |-> priority, dueDate |-> form.dueDate,
                   preferredTime |-> form.preferredTime, plannedDuration |-> duration]
  IN /\ pc = "idle" /\ draggedTask = Null /\ resizingTask = Null
     /\ IF taskId # 0
        THEN /\ indexOf(tasks, taskId) # 0
             /\ tasks' = updateTask(tasks, taskId, taskData)
             /\ toast' = <<"Task updated!">>
        ELSE /\ Len(tasks) < MaxTasks
             /\ tasks' = createTask(tasks, taskData, nextId)
             /\ toast' = <<"Task created!">>
     /\ UNCHANGED <<planner, autoRun>>

\* TaskManager.duplicateTask(taskId) from a task card's duplicate button: the
\* copy goes to the front, not completed
duplicateTask(taskId) ==
  /\ pc = "idle" /\ draggedTask = Null /\ resizingTask = Null
  /\ indexOf(tasks, taskId) # 0
  /\ Len(tasks) < MaxTasks
  /\ tasks' = <<[tasks[indexOf(tasks, taskId)] EXCEPT !.id = nextId, !.completed = FALSE]>>
                \o tasks
  /\ toast' = <<"Task duplicated!">>
  /\ UNCHANGED <<planner, autoRun>>

\* TaskManager.toggleComplete(taskId), from a timeline or dashboard check button
toggleComplete(taskId) ==
  /\ pc = "idle" /\ draggedTask = Null /\ resizingTask = Null
  /\ indexOf(tasks, taskId) # 0
  /\ tasks' = [tasks EXCEPT ![indexOf(tasks, taskId)].completed = ~@]
  /\ UNCHANGED <<toast, planner, autoRun>>

\* TaskManager.importTasks(file): the file's tasks get fresh ids and go to the end
importTasks(file) ==
  /\ pc = "idle" /\ draggedTask = Null /\ resizingTask = Null
  /\ Len(tasks) + Len(file) <= MaxTasks
  /\ tasks' = tasks \o [i \in 1..Len(file) |-> [file[i] EXCEPT !.id = Len(tasks) + i]]
  /\ toast' = <<"Imported tasks!">>
  /\ UNCHANGED <<planner, autoRun>>

\* -------------------------------------------------- PlannerController views
\* renderTasks: the tasks for today (or with no date)
relevantTasks == SelectSeq(tasks, LAMBDA t : t.dueDate = today \/ t.dueDate = "")
renderUnscheduled == SelectSeq(relevantTasks, LAMBDA t : ~t.completed /\ ~Truthy(t.plannedStartTime))
\* (mutant) the timeline without the completed tasks
renderScheduledActive ==
  SelectSeq(relevantTasks, LAMBDA t : ~t.completed /\ Truthy(t.plannedStartTime))
renderScheduled == SelectSeq(relevantTasks, LAMBDA t : Truthy(t.plannedStartTime))
renderCompleted == SelectSeq(relevantTasks, LAMBDA t : t.completed)

Range(s) == {s[i] : i \in 1..Len(s)}

\* ------------------------------------------------------ unschedule and drag
\* (mutant) unscheduling that clears the due date as well
unscheduleTaskClearsDate(taskId) ==
  /\ pc = "idle" /\ draggedTask = Null /\ resizingTask = Null
  /\ \E t \in Range(renderScheduled) : t.id = taskId
  /\ tasks' = updateTask(tasks, taskId, [plannedStartTime |-> Null, dueDate |-> ""])
  /\ toast' = <<"Task unscheduled">>
  /\ UNCHANGED <<planner, autoRun>>

\* the unschedule button of a task on the timeline
unscheduleTask(taskId) ==
  /\ pc = "idle" /\ draggedTask = Null /\ resizingTask = Null
  /\ \E t \in Range(renderScheduled) : t.id = taskId
  /\ tasks' = updateTask(tasks, taskId, [plannedStartTime |-> Null])
  /\ toast' = <<"Task unscheduled">>
  /\ UNCHANGED <<planner, autoRun>>

\* dragstart on an unscheduled card or on a task of the timeline
dragstart(task) ==
  /\ pc = "idle" /\ draggedTask = Null /\ resizingTask = Null
  /\ task \in Range(renderUnscheduled) \cup Range(renderScheduled)
  /\ draggedTask' = <<task>>
  /\ UNCHANGED <<tasks, toast, resizingTask, autoRun>>

\* dragend with no drop on a drop target
dragend ==
  /\ draggedTask # Null
  /\ draggedTask' = Null
  /\ UNCHANGED <<tasks, toast, resizingTask, autoRun>>

\* a drop on the unscheduled list, followed by the drag's dragend
handleUnscheduleDrop ==
  /\ draggedTask # Null
  /\ tasks' = updateTask(tasks, draggedTask[1].id, [plannedStartTime |-> Null])
  /\ toast' = <<"Task unscheduled">>
  /\ draggedTask' = Null
  /\ UNCHANGED <<resizingTask, autoRun>>

\* x % 60 in JavaScript: the sign of the dividend
jsRem60(x) == IF x >= 0 THEN x % 60 ELSE 0 - ((0 - x) % 60)

\* (mutant) a drop without the upper end of the range test
handleDropNoUpper(y) ==
  LET snappedMinutes == round15((startHour * 60) + (((y - headerPad) * 60) \div timeSlotHeight))
      hour == snappedMinutes \div 60
      dragged == draggedTask[1]
      updates == [plannedStartTime |-> timeString(hour, jsRem60(snappedMinutes)),
                  plannedDuration |-> durationOr30(dragged),
                  dueDate |-> IF dragged.dueDate = "" THEN today ELSE dragged.dueDate]
  IN /\ draggedTask # Null
     /\ IF hour < startHour
        THEN UNCHANGED <<tasks, toast>>
        ELSE /\ tasks' = updateTask(tasks, dragged.id, updates)
             /\ toast' = <<"Scheduled for">>
     /\ draggedTask' = Null
     /\ UNCHANGED <<resizingTask, autoRun>>

\* (mutant) a drop that does not snap to the 15-minute grid
handleDropNoSnap(y) ==
  LET totalMinutes == (startHour * 60) + (((y - headerPad) * 60) \div timeSlotHeight)
      hour == totalMinutes \div 60
      dragged == draggedTask[1]
      updates == [plannedStartTime |-> timeString(hour, jsRem60(totalMinutes)),
                  plannedDuration |-> durationOr30(dragged),
                  dueDate |-> IF dragged.dueDate = "" THEN today ELSE dragged.dueDate]
  IN /\ draggedTask # Null
     /\ IF hour < startHour \/ hour >= endHour
        THEN UNCHANGED <<tasks, toast>>
        ELSE /\ tasks' = updateTask(tasks, dragged.id, updates)
             /\ toast' = <<"Scheduled for">>
     /\ draggedTask' = Null
     /\ UNCHANGED <<resizingTask, autoRun>>

\* (mutant) a drop that is refused on an occupied interval
handleDropGuarded(y) ==
  LET snappedMinutes == round15((startHour * 60) + (((y - headerPad) * 60) \div timeSlotHeight))
      hour == snappedMinutes \div 60
      dragged == draggedTask[1]
      updates == [plannedStartTime |-> timeString(hour, jsRem60(snappedMinutes)),
                  plannedDuration |-> durationOr30(dragged),
                  dueDate |-> IF dragged.dueDate = "" THEN today ELSE dragged.dueDate]
      others == SelectSeq(tasks, LAMBDA t :
                  Truthy(t.plannedStartTime) /\ ~t.completed /\ t.id # dragged.id)
  IN /\ draggedTask # Null
     /\ IF hour < startHour \/ hour >= endHour
        THEN UNCHANGED <<tasks, toast>>
        ELSE IF \E k \in 1..Len(others) :
                  /\ Lt(snappedMinutes,
                        Plus(startMins(others[k].plannedStartTime), durationOr30(others[k])))
                  /\ Gt(snappedMinutes + durationOr30(dragged),
                        startMins(others[k].plannedStartTime))
        THEN UNCHANGED <<tasks, toast>>
        ELSE /\ tasks' = updateTask(tasks, dragged.id, updates)
             /\ toast' = <<"Scheduled for">>
     /\ draggedTask' = Null
     /\ UNCHANGED <<resizingTask, autoRun>>

\* a drop on the timeline at y = e.clientY - rect.top + scrollTop, followed
\* by the drag's dragend
handleDrop(y) ==
  LET relativeY == y - headerPad
      \* (startHour * 60) + (relativeY / timeSlotHeight) * 60
      totalMinutes == (startHour * 60) + ((relativeY * 60) \div timeSlotHeight)
      snappedMinutes == round15(totalMinutes)
      hour == snappedMinutes \div 60
      minute == jsRem60(snappedMinutes)
      dragged == draggedTask[1]
      updates == [plannedStartTime |-> timeString(hour, minute),
                  plannedDuration |-> durationOr30(dragged),
                  dueDate |-> IF dragged.dueDate = "" THEN today ELSE dragged.dueDate]
  IN /\ draggedTask # Null
     /\ IF hour < startHour \/ hour >= endHour
        THEN UNCHANGED <<tasks, toast>>
        ELSE /\ tasks' = updateTask(tasks, dragged.id, updates)
             /\ toast' = <<"Scheduled for">>
     /\ draggedTask' = Null
     /\ UNCHANGED <<resizingTask, autoRun>>

\* ------------------------------------------------------------------ resize
\* the rendered height of a task on the timeline: (durationMins / 60) * timeSlotHeight
renderedHeight(t) == (durationOr30(t) * timeSlotHeight) \div 60

\* mousedown on the resize handle of a task of the timeline
handleResizeStart(task, clientY) ==
  /\ pc = "idle" /\ draggedTask = Null /\ resizingTask = Null
  /\ task \in Range(renderScheduled)
  /\ resizingTask' = <<[task |-> task,
                        resizeStartY |-> clientY,
                        resizeStartHeight |-> renderedHeight(task),
                        onTimeline |-> TRUE,
                        offsetHeight |-> renderedHeight(task)]>>
  /\ UNCHANGED <<tasks, toast, draggedTask, autoRun>>

Max(a, b) == IF a >= b THEN a ELSE b

\* (mutant) mousemove without the 15px floor
handleResizeMoveNoFloor(clientY) ==
  IF resizingTask = Null \/ ~resizingTask[1].onTimeline THEN UNCHANGED vars
  ELSE LET dy == clientY - resizingTask[1].resizeStartY
           newHeight == resizingTask[1].resizeStartHeight + dy
       IN /\ newHeight <= MaxHeight
          /\ resizingTask' = <<[resizingTask[1] EXCEPT !.offsetHeight = newHeight]>>
          /\ UNCHANGED <<tasks, toast, draggedTask, autoRun>>

\* document mousemove
handleResizeMove(clientY) ==
  IF resizingTask = Null \/ ~resizingTask[1].onTimeline THEN UNCHANGED vars
  ELSE LET dy == clientY - resizingTask[1].resizeStartY
           newHeight == Max(15, resizingTask[1].resizeStartHeight + dy)
       IN /\ newHeight <= MaxHeight
          /\ resizingTask' = <<[resizingTask[1] EXCEPT !.offsetHeight = newHeight]>>
          /\ UNCHANGED <<tasks, toast, draggedTask, autoRun>>

\* (mutant) mouseup that rounds the duration down to the 15-minute grid
handleResizeEndFloor ==
  IF resizingTask = Null THEN UNCHANGED vars
  ELSE /\ IF resizingTask[1].onTimeline
          THEN LET height == resizingTask[1].offsetHeight
                   raw == (height * 60) \div timeSlotHeight
                   snapped == (raw \div 15) * 15
                   durationMins == IF snapped < 15 THEN 15 ELSE snapped
               IN /\ tasks' = updateTask(tasks, resizingTask[1].task.id,
                                         [plannedDuration |-> durationMins])
                  /\ toast' = <<"Duration updated to", durationMins>>
          ELSE UNCHANGED <<tasks, toast>>
       /\ resizingTask' = Null
       /\ UNCHANGED <<draggedTask, autoRun>>

\* (mutant) mouseup that returns early when the element is gone
handleResizeEndStuck ==
  IF resizingTask = Null THEN UNCHANGED vars
  ELSE IF ~resizingTask[1].onTimeline THEN UNCHANGED vars
  ELSE LET height == resizingTask[1].offsetHeight
           raw == (height * 60) \div timeSlotHeight
           snapped == round15(raw)
           durationMins == IF snapped < 15 THEN 15 ELSE snapped
       IN /\ tasks' = updateTask(tasks, resizingTask[1].task.id,
                                 [plannedDuration |-> durationMins])
          /\ toast' = <<"Duration updated to", durationMins>>
          /\ resizingTask' = Null
          /\ UNCHANGED <<draggedTask, autoRun>>

\* (mutant) mouseup that writes the task as captured at the grab back with
\* the new duration
handleResizeEndStale ==
  IF resizingTask = Null THEN UNCHANGED vars
  ELSE /\ IF resizingTask[1].onTimeline
          THEN LET height == resizingTask[1].offsetHeight
                   raw == (height * 60) \div timeSlotHeight
                   snapped == round15(raw)
                   durationMins == IF snapped < 15 THEN 15 ELSE snapped
               IN /\ tasks' = updateTask(tasks, resizingTask[1].task.id,
                                         [resizingTask[1].task EXCEPT
                                            !.plannedDuration = durationMins])
                  /\ toast' = <<"Duration updated to", durationMins>>
          ELSE UNCHANGED <<tasks, toast>>
       /\ resizingTask' = Null
       /\ UNCHANGED <<draggedTask, autoRun>>

\* (mutant) mouseup without the guard: while no resize is under way it
\* commits the floor duration for the first task of the timeline
handleResizeEndNoGuard ==
  IF resizingTask = Null
  THEN /\ renderScheduled # <<>>
       /\ tasks' = updateTask(tasks, renderScheduled[1].id, [plannedDuration |-> 15])
       /\ toast' = <<"Duration updated to", 15>>
       /\ UNCHANGED <<draggedTask, resizingTask, autoRun>>
  ELSE /\ IF resizingTask[1].onTimeline
          THEN LET height == resizingTask[1].offsetHeight
                   raw == (height * 60) \div timeSlotHeight
                   snapped == round15(raw)
                   durationMins == IF snapped < 15 THEN 15 ELSE snapped
               IN /\ tasks' = updateTask(tasks, resizingTask[1].task.id,
                                         [plannedDuration |-> durationMins])
                  /\ toast' = <<"Duration updated to", durationMins>>
          ELSE UNCHANGED <<tasks, toast>>
       /\ resizingTask' = Null
       /\ UNCHANGED <<draggedTask, autoRun>>

\* document mouseup
handleResizeEnd ==
  IF resizingTask = Null THEN UNCHANGED vars
  ELSE /\ IF resizingTask[1].onTimeline
          THEN LET height == resizingTask[1].offsetHeight
                   raw == (height * 60) \div timeSlotHeight
                   snapped == round15(raw)
                   durationMins == IF snapped < 15 THEN 15 ELSE snapped
               IN /\ tasks' = updateTask(tasks, resizingTask[1].task.id,
                                         [plannedDuration |-> durationMins])
                  /\ toast' = <<"Duration updated to", durationMins>>
          ELSE UNCHANGED <<tasks, toast>>
       /\ resizingTask' = Null
       /\ UNCHANGED <<draggedTask, autoRun>>

\* the 'p' key during a resize: UIController.showPlanner, PlannerController.show
\* and render rebuild the timeline from the store, so the element of the task
\* being resized is the store's again, or is gone
showPlanner ==
  /\ resizingTask # Null
  /\ LET index == indexOf(tasks, resizingTask[1].task.id)
         on == \E t \in Range(renderScheduled) : t.id = resizingTask[1].task.id
     IN resizingTask' = <<[resizingTask[1] EXCEPT
                             !.onTimeline = on,
                             !.offsetHeight = IF on THEN renderedHeight(tasks[index]) ELSE 0]>>
  /\ UNCHANGED <<tasks, toast, draggedTask, autoRun>>

\* the store changed under a resize: another tab of the same user takes the
\* task off the timeline, and getTasks reads the shared storage
storageUnschedule ==
  /\ resizingTask # Null
  /\ Truthy(tasks[indexOf(tasks, resizingTask[1].task.id)].plannedStartTime)
  /\ tasks' = updateTask(tasks, resizingTask[1].task.id, [plannedStartTime |-> Null])
  /\ UNCHANGED <<toast, planner, autoRun>>

\* ----------------------------------------------------------- auto-schedule
\* const priorityOrder = { 'high': 3, 'medium': 2, 'low': 1 }; priorityOrder[p] || 0
priorityOrder(p) ==
  CASE p = "high" -> 3 [] p = "medium" -> 2 [] p = "low" -> 1 [] OTHER -> 0

\* (mutant) the priorities compared the other way round
sortFnAscending(a, b) ==
  LET pA == priorityOrder(a.priority)
      pB == priorityOrder(b.priority)
  IN IF pA # pB THEN pA - pB
     ELSE durationOr30(b) - durationOr30(a)

\* sortFn(a, b): negative when a goes first
sortFn(a, b) ==
  LET pA == priorityOrder(a.priority)
      pB == priorityOrder(b.priority)
  IN IF pA # pB THEN pB - pA
     ELSE durationOr30(b) - durationOr30(a)

\* the comparator of the committed set: parseInt of the time without its colon
timeCmp(a, b) ==
  LET timeA == parseInt(replaceColon(a.plannedStartTime))
      timeB == parseInt(replaceColon(b.plannedStartTime))
  IN IF IsNaN(timeA) \/ IsNaN(timeB) THEN 0 ELSE timeA - timeB

\* Array.prototype.sort is stable: x goes after the last element that does
\* not have to follow it.
insertByPriority(r, x) ==
  LET j == IF \E k \in 1..Len(r) : sortFn(r[k], x) <= 0
           THEN CHOOSE k \in 1..Len(r) :
                  sortFn(r[k], x) <= 0 /\ \A m \in (k + 1)..Len(r) : sortFn(r[m], x) > 0
           ELSE 0
  IN SubSeq(r, 1, j) \o <<x>> \o SubSeq(r, j + 1, Len(r))

RECURSIVE sortByPriority(_)
\* withoutPreference.sort(sortFn)
sortByPriority(s) ==
  IF s = <<>> THEN <<>>
  ELSE insertByPriority(sortByPriority(SubSeq(s, 1, Len(s) - 1)), s[Len(s)])

insertByTime(r, x) ==
  LET j == IF \E k \in 1..Len(r) : timeCmp(r[k], x) <= 0
           THEN CHOOSE k \in 1..Len(r) :
                  timeCmp(r[k], x) <= 0 /\ \A m \in (k + 1)..Len(r) : timeCmp(r[m], x) > 0
           ELSE 0
  IN SubSeq(r, 1, j) \o <<x>> \o SubSeq(r, j + 1, Len(r))

RECURSIVE sortByTime(_)
\* scheduled.sort((a, b) => timeA - timeB)
sortByTime(s) ==
  IF s = <<>> THEN <<>>
  ELSE insertByTime(sortByTime(SubSeq(s, 1, Len(s) - 1)), s[Len(s)])

\* tasks.filter(t => !t.plannedStartTime && !t.completed)
unscheduledOf(ts) ==
  SelectSeq(ts, LAMBDA t : ~Truthy(t.plannedStartTime) /\ ~t.completed)

\* (mutant) every unscheduled task sorted by priority, preference or not
placementOrderSortAll(unscheduled) == sortByPriority(unscheduled)

\* (mutant) the tasks without preference left out of the order
placementOrderPreferredOnly(unscheduled) ==
  SelectSeq(unscheduled, LAMBDA t : Truthy(t.preferredTime))

\* [...withPreference, ...withoutPreference] after the sort
placementOrder(unscheduled) ==
  LET withPreference == SelectSeq(unscheduled, LAMBDA t : Truthy(t.preferredTime))
      withoutPreference == SelectSeq(unscheduled, LAMBDA t : ~Truthy(t.preferredTime))
  IN withPreference \o sortByPriority(withoutPreference)

\* (mutant) the committed set taken without the completed test
scheduledOfAll(ts) ==
  sortByTime(SelectSeq(ts, LAMBDA t : Truthy(t.plannedStartTime)))

\* (mutant) the completed flag tested the wrong way round
scheduledOfCompleted(ts) ==
  sortByTime(SelectSeq(ts, LAMBDA t : Truthy(t.plannedStartTime) /\ t.completed))

\* tasks.filter(t => t.plannedStartTime && !t.completed).sort(...)
scheduledOf(ts) ==
  sortByTime(SelectSeq(ts, LAMBDA t : Truthy(t.plannedStartTime) /\ ~t.completed))

\* (mutant) intervals that touch at an endpoint count as overlapping
overlapsClosed(myStart, myEnd, committed) ==
  \E k \in 1..Len(committed) :
    LET sStart == startMins(committed[k].plannedStartTime)
        sEnd == Plus(sStart, durationOr30(committed[k]))
    IN Le(myStart, sEnd) /\ Ge(myEnd, sStart)

\* (mutant) only a start inside the other interval counts as an overlap
overlapsStartInside(myStart, myEnd, committed) ==
  \E k \in 1..Len(committed) :
    LET sStart == startMins(committed[k].plannedStartTime)
        sEnd == Plus(sStart, durationOr30(committed[k]))
    IN Lt(myStart, sEnd) /\ Ge(myStart, sStart)

\* scheduled.some(s => myStart < sEnd && myEnd > sStart)
overlaps(myStart, myEnd, committed) ==
  \E k \in 1..Len(committed) :
    LET sStart == startMins(committed[k].plannedStartTime)
        sEnd == Plus(sStart, durationOr30(committed[k]))
    IN Lt(myStart, sEnd) /\ Gt(myEnd, sStart)

\* (mutant) the preferred time taken without the working-window test
strategyANoWindow(task, committed) ==
  IF Truthy(task.preferredTime)
  THEN LET pStart == startMins(task.preferredTime)
           pEnd == Plus(pStart, durationOr30(task))
       IN IF ~overlaps(pStart, pEnd, committed) /\ ~IsNaN(pStart)
          THEN task.preferredTime
          ELSE Null
  ELSE Null

\* (mutant) the overlap test of the preferred time inverted
strategyAInverted(task, committed) ==
  IF Truthy(task.preferredTime)
  THEN LET pStart == startMins(task.preferredTime)
           pEnd == Plus(pStart, durationOr30(task))
       IN IF overlaps(pStart, pEnd, committed)
             /\ Ge(pStart, workStartMins) /\ Le(pEnd, workEndMins)
          THEN task.preferredTime
          ELSE Null
  ELSE Null

\* Strategy A: the preferred time, when it is free and inside the window
strategyA(task, committed) ==
  IF Truthy(task.preferredTime)
  THEN LET pStart == startMins(task.preferredTime)
           pEnd == Plus(pStart, durationOr30(task))
       IN IF ~overlaps(pStart, pEnd, committed)
             /\ Ge(pStart, workStartMins) /\ Le(pEnd, workEndMins)
          THEN task.preferredTime
          ELSE Null
  ELSE Null

RECURSIVE strategyBNoBreak(_, _, _)
\* (mutant) the scan without its break: the last free candidate wins
strategyBNoBreak(time, duration, committed) ==
  IF ~(time <= workEndMins - duration) THEN Null
  ELSE LET later == strategyBNoBreak(time + 15, duration, committed)
       IN IF Truthy(later) THEN later
          ELSE IF ~overlaps(time, time + duration, committed)
               THEN timeString(time \div 60, time % 60)
               ELSE Null

RECURSIVE strategyBNoFit(_, _, _)
\* (mutant) the scan running up to the end of the window, whatever the duration
strategyBNoFit(time, duration, committed) ==
  IF ~(time <= workEndMins) THEN Null
  ELSE IF ~overlaps(time, time + duration, committed)
       THEN timeString(time \div 60, time % 60)
       ELSE strategyBNoFit(time + 15, duration, committed)

RECURSIVE strategyB(_, _, _)
\* Strategy B: for (time = workStartMins; time <= workEndMins - duration; time += 15)
strategyB(time, duration, committed) ==
  IF ~(time <= workEndMins - duration) THEN Null
  ELSE IF ~overlaps(time, time + duration, committed)
       THEN timeString(time \div 60, time % 60)
       ELSE strategyB(time + 15, duration, committed)

\* (mutant) no scan for a task whose preferred time failed
scheduledTimeForNoFallback(task, committed) ==
  IF Truthy(task.preferredTime) THEN strategyA(task, committed)
  ELSE strategyB(workStartMins, durationOr30(task), committed)

RECURSIVE scanned(_, _, _)
\* the number of candidate start times the Strategy B loop examines from
\* `time` on: it stops at the first free one
scanned(time, duration, committed) ==
  IF ~(time <= workEndMins - duration) THEN 0
  ELSE IF ~overlaps(time, time + duration, committed) THEN 1
       ELSE 1 + scanned(time + 15, duration, committed)

\* the scheduledTime one forEach iteration settles on
scheduledTimeFor(task, committed) ==
  IF Truthy(strategyA(task, committed)) THEN strategyA(task, committed)
  ELSE strategyB(workStartMins, durationOr30(task), committed)

\* autoScheduleTasks up to the forEach: the filters and the sorts
autoStart ==
  LET unscheduled == unscheduledOf(tasks)
  IN /\ pc = "idle" /\ draggedTask = Null /\ resizingTask = Null
     /\ IF Len(unscheduled) = 0
        THEN /\ toast' = <<"No unscheduled tasks to optimize.">>
             /\ UNCHANGED <<tasks, planner, autoRun>>
        ELSE /\ pc' = "auto"
             /\ sortedUnscheduled' = placementOrder(unscheduled)
             /\ scheduled' = scheduledOf(tasks)
             /\ idx' = 1
             /\ scheduledCount' = 0
             /\ UNCHANGED <<tasks, toast, planner>>

\* (mutant) a placement that is not added to the committed set
autoPlaceNoPush ==
  /\ pc = "auto" /\ idx <= Len(sortedUnscheduled)
  /\ LET task == sortedUnscheduled[idx]
         scheduledTime == scheduledTimeFor(task, scheduled)
     IN IF Truthy(scheduledTime)
        THEN /\ tasks' = updateTask(tasks, task.id, [plannedStartTime |-> scheduledTime])
             /\ scheduledCount' = scheduledCount + 1
             /\ UNCHANGED scheduled
        ELSE UNCHANGED <<tasks, scheduled, scheduledCount>>
  /\ idx' = idx + 1
  /\ UNCHANGED <<toast, planner, pc, sortedUnscheduled>>

\* one iteration of sortedUnscheduled.forEach
autoPlace ==
  /\ pc = "auto" /\ idx <= Len(sortedUnscheduled)
  /\ LET task == sortedUnscheduled[idx]
         scheduledTime == scheduledTimeFor(task, scheduled)
     IN IF Truthy(scheduledTime)
        THEN /\ tasks' = updateTask(tasks, task.id, [plannedStartTime |-> scheduledTime])
             /\ scheduled' = sortByTime(Append(scheduled, merge(task, [plannedStartTime |-> scheduledTime])))
             /\ scheduledCount' = scheduledCount + 1
        ELSE UNCHANGED <<tasks, scheduled, scheduledCount>>
  /\ idx' = idx + 1
  /\ UNCHANGED <<toast, planner, pc, sortedUnscheduled>>

\* (mutant) the report without the test of the count
autoFinishAlwaysCount ==
  /\ pc = "auto" /\ idx > Len(sortedUnscheduled)
  /\ toast' = <<"Auto-scheduled", scheduledCount>>
  /\ pc' = "idle"
  /\ sortedUnscheduled' = <<>>
  /\ scheduled' = <<>>
  /\ idx' = 0
  /\ scheduledCount' = 0
  /\ UNCHANGED <<tasks, planner>>

\* autoScheduleTasks after the forEach: the report
autoFinish ==
  /\ pc = "auto" /\ idx > Len(sortedUnscheduled)
  /\ toast' = IF scheduledCount > 0 THEN <<"Auto-scheduled", scheduledCount>>
              ELSE <<"Could not find empty slots for remaining tasks.">>
  /\ pc' = "idle"
  /\ sortedUnscheduled' = <<>>
  /\ scheduled' = <<>>
  /\ idx' = 0
  /\ scheduledCount' = 0
  /\ UNCHANGED <<tasks, planner>>

\* ---------------------------------------------------------- quick-schedule
\* (mutant) quick-schedule without its conflict check
quickScheduleTaskNoCheck(taskId, time) ==
  LET index == indexOf(tasks, taskId)
      hours == hoursOf(time)
  IN /\ pc = "idle" /\ draggedTask = Null /\ resizingTask = Null
     /\ index # 0
     /\ IF Lt(hours, startHour) \/ Ge(hours, endHour)
        THEN /\ toast' = <<"outside working hours">>
             /\ UNCHANGED tasks
        ELSE /\ tasks' = updateTask(tasks, taskId, [plannedStartTime |-> time])
             /\ toast' = <<"Scheduled">>
     /\ UNCHANGED <<planner, autoRun>>

\* (mutant) quick-schedule without its range validation
quickScheduleTaskNoRange(taskId, time) ==
  LET index == indexOf(tasks, taskId)
      task == tasks[index]
      myStart == Plus(Times(hoursOf(time), 60), minutesOf(time))
      myEnd == Plus(myStart, durationOr30(task))
      others == SelectSeq(tasks, LAMBDA t :
                  Truthy(t.plannedStartTime) /\ ~t.completed /\ t.id # taskId)
  IN /\ pc = "idle" /\ draggedTask = Null /\ resizingTask = Null
     /\ index # 0
     /\ IF overlaps(myStart, myEnd, others)
        THEN /\ toast' = <<"Slot is occupied">>
             /\ UNCHANGED tasks
        ELSE /\ tasks' = updateTask(tasks, taskId, [plannedStartTime |-> time])
             /\ toast' = <<"Scheduled">>
     /\ UNCHANGED <<planner, autoRun>>

\* (mutant) quick-schedule committing like a drop: it also stores the
\* duration it computed with and defaults the due date to today
quickScheduleTaskLikeDrop(taskId, time) ==
  LET index == indexOf(tasks, taskId)
      task == tasks[index]
      myStart == Plus(Times(hoursOf(time), 60), minutesOf(time))
      myEnd == Plus(myStart, durationOr30(task))
      others == SelectSeq(tasks, LAMBDA t :
                  Truthy(t.plannedStartTime) /\ ~t.completed /\ t.id # taskId)
  IN /\ pc = "idle" /\ draggedTask = Null /\ resizingTask = Null
     /\ index # 0
     /\ IF Lt(hoursOf(time), startHour) \/ Ge(hoursOf(time), endHour)
        THEN /\ toast' = <<"outside working hours">>
             /\ UNCHANGED tasks
        ELSE IF overlaps(myStart, myEnd, others)
        THEN /\ toast' = <<"Slot is occupied">>
             /\ UNCHANGED tasks
        ELSE /\ tasks' = updateTask(tasks, taskId,
                            [plannedStartTime |-> time,
                             plannedDuration |-> durationOr30(task),
                             dueDate |-> IF task.dueDate = "" THEN today ELSE task.dueDate])
             /\ toast' = <<"Scheduled">>
     /\ UNCHANGED <<planner, autoRun>>

\* PlannerController.quickScheduleTask(taskId, timeString)
quickScheduleTask(taskId, time) ==
  LET index == indexOf(tasks, taskId)
      task == tasks[index]
      hours == hoursOf(time)
      minutes == minutesOf(time)
      duration == durationOr30(task)
      myStart == Plus(Times(hours, 60), minutes)
      myEnd == Plus(myStart, duration)
      others == SelectSeq(tasks, LAMBDA t :
                  Truthy(t.plannedStartTime) /\ ~t.completed /\ t.id # taskId)
  IN /\ pc = "idle" /\ draggedTask = Null /\ resizingTask = Null
     /\ index # 0
     /\ IF Lt(hours, startHour) \/ Ge(hours, endHour)
        THEN /\ toast' = <<"outside working hours">>
             /\ UNCHANGED tasks
        ELSE IF overlaps(myStart, myEnd, others)
        THEN /\ toast' = <<"Slot is occupied">>
             /\ UNCHANGED tasks
        ELSE /\ tasks' = updateTask(tasks, taskId, [plannedStartTime |-> time])
             /\ toast' = <<"Scheduled">>
     /\ UNCHANGED <<planner, autoRun>>

\* ------------------------------------------------------------ specification
TaskIds == 1..MaxTasks

Init ==
  /\ tasks = <<>>
  /\ toast = <<>>
  /\ draggedTask = Null
  /\ resizingTask = Null
  /\ pc = "idle"
  /\ sortedUnscheduled = <<>>
  /\ idx = 0
  /\ scheduled = <<>>
  /\ scheduledCount = 0

Next ==
  \/ \E form \in TaskForms, id \in {0} \cup TaskIds : handleTaskSubmit(form, id)
  \/ \E id \in TaskIds : duplicateTask(id)
  \/ \E file \in ImportFiles : importTasks(file)
  \/ \E id \in TaskIds : toggleComplete(id)
  \/ \E id \in TaskIds : unscheduleTask(id)
  \/ \E t \in Range(tasks) : dragstart(t)
  \/ dragend
  \/ handleUnscheduleDrop
  \/ \E y \in DropYs : handleDrop(y)
  \/ \E t \in Range(tasks), clientY \in ResizeGrabYs : handleResizeStart(t, clientY)
  \/ \E y \in ResizeMoveYs : handleResizeMove(y)
  \/ handleResizeEnd
  \/ showPlanner
  \/ storageUnschedule
  \/ autoStart
  \/ autoPlace
  \/ autoFinish
  \/ \E id \in TaskIds, time \in QuickTimes : quickScheduleTask(id, time)

Spec == Init /\ [][Next]_vars

\* ------------------------------------------- the scheduling engine on its own
\* Task records a store can hold when the planner is opened: created in the
\* form, dropped on the timeline, completed, or loaded from an imported file.
Tk(priority, dueDate, preferredTime, plannedStartTime, plannedDuration, completed) ==
  [id |-> 0, priority |-> priority, dueDate |-> dueDate, preferredTime |-> preferredTime,
   plannedStartTime |-> plannedStartTime, plannedDuration |-> plannedDuration,
   completed |-> completed]

TaskPool ==
  { Tk("high",   "",       Null,       Null,       60,  FALSE),
    Tk("medium", "",       T0800,      Null,       30,  FALSE),
    Tk("low",    "",       Null,       Null,       60,  FALSE),
    Tk("high",   "",       Null,       Null,       30,  FALSE),
    Tk("medium", today,    T0900,      Null,       30,  FALSE),
    Tk("low",    "",       Null,       Null,       720, FALSE),
    Tk("medium", "",       T1945,      Null,       30,  FALSE),
    Tk("medium", today,    Null,       T0900,      60,  FALSE),
    Tk("low",    "",       Null,       T0930,      30,  FALSE),
    Tk("high",   "",       Null,       T0800,      30,  TRUE),
    Tk("low",    otherDay, Null,       T0800,      45,  FALSE),
    Tk("medium", otherDay, Null,       Null,       30,  FALSE),
    Tk("medium", "",       <<"a", "b">>, Null,     30,  FALSE),
    Tk("low",    "",       Null,       <<"x", "x">>, 30, FALSE),
    Tk("high",   "",       Null,       Null,       0,   FALSE) }

\* Times given to quickScheduleTask when the engine is checked on its own.
EngineQuickTimes == {T0800, T0900, T2400, TNeg1}

\* Stores quick-schedule is started on: the pool and a task late in the day.
QuickPool == TaskPool \cup {Tk("low", "", Null, T2330, 60, FALSE)}

\* the planner opened on a store of up to n tasks of a pool
InitPool(n, pool) ==
  /\ \E len \in 0..n : \E f \in [1..len -> pool] :
       tasks = [i \in 1..len |-> [f[i] EXCEPT !.id = i]]
  /\ toast = <<>>
  /\ draggedTask = Null
  /\ resizingTask = Null
  /\ pc = "idle"
  /\ sortedUnscheduled = <<>>
  /\ idx = 0
  /\ scheduled = <<>>
  /\ scheduledCount = 0

InitStore(n) == InitPool(n, TaskPool)

InitAuto == InitStore(MaxStore)

NextAuto ==
  \/ autoStart
  \/ autoPlace
  \/ autoFinish

SpecAuto == InitAuto /\ [][NextAuto]_vars

InitQuick == InitPool(MaxQuickStore, QuickPool)

NextQuick ==
  \E id \in 1..MaxQuickStore, time \in EngineQuickTimes : quickScheduleTask(id, time)

SpecQuick == InitQuick /\ [][NextQuick]_vars

\* auto-schedule and quick-schedule together, on the stores of quick-schedule
NextEngine ==
  \/ NextAuto
  \/ NextQuick

SpecEngine == InitQuick /\ [][NextEngine]_vars

\* dragging on its own, on the stores of quick-schedule
NextDrag ==
  \/ \E t \in Range(tasks) : dragstart(t)
  \/ dragend
  \/ handleUnscheduleDrop
  \/ \E y \in DropYs : handleDrop(y)

SpecDrag == InitQuick /\ [][NextDrag]_vars

\* resizing on its own, on the stores of quick-schedule
NextResize ==
  \/ \E t \in Range(tasks), clientY \in ResizeGrabYs : handleResizeStart(t, clientY)
  \/ \E y \in ResizeMoveYs : handleResizeMove(y)
  \/ handleResizeEnd
  \/ showPlanner
  \/ storageUnschedule

SpecResize == InitQuick /\ [][NextResize]_vars

\* the task store's operations next to the engine, on the stores of
\* quick-schedule
NextStore ==
  \/ NextAuto
  \/ NextQuick
  \/ \E id \in TaskIds : toggleComplete(id)
  \/ \E id \in TaskIds : duplicateTask(id)
  \/ \E id \in TaskIds : unscheduleTask(id)

SpecStore == InitQuick /\ [][NextStore]_vars

\* ---------------------------------- records that lack a plannedDuration
\* Stores with task records that have no plannedDuration, as an imported file
\* can hold them, next to records that have one.
MissingPool ==
  { Tk("high",   "", Null,  Null,  0,  FALSE),
    Tk("high",   "", Null,  Null,  60, FALSE),
    Tk("high",   "", Null,  Null,  15, FALSE),
    Tk("medium", "", T0800, Null,  0,  FALSE),
    Tk("medium", "", T1945, Null,  0,  FALSE),
    Tk("low",    "", Null,  T0800, 0,  FALSE) }

InitMissing == InitPool(MaxQuickStore, MissingPool)

\* auto-schedule, quick-schedule and dragging on these stores
NextMissing ==
  \/ NextAuto
  \/ NextQuick
  \/ NextDrag

SpecMissing == InitMissing /\ [][NextMissing]_vars

\* ------------------------------------------------ days that fill up
\* Stores with tasks that fill the working window or do not fit into it.
CapacityPool ==
  { Tk("high",   "",    Null,  Null,  735, FALSE),
    Tk("low",    "",    Null,  Null,  720, FALSE),
    Tk("low",    "",    Null,  Null,  690, FALSE),
    Tk("low",    "",    Null,  Null,  60,  FALSE),
    Tk("medium", "",    T0900, Null,  30,  FALSE),
    Tk("medium", today, Null,  T0900, 60,  FALSE) }

InitCapacity == InitPool(MaxStore, CapacityPool)

SpecCapacity == InitCapacity /\ [][NextAuto]_vars

\* ------------------------------------------ durations an import can bring
\* Stores with durations as an imported file can hold them: a task that
\* covers the day from 07:00 to 21:00, and tasks of 30, 15, 5 and -15
\* minutes.
ScanPool ==
  { Tk("low",    "", Null,  T0700, 840,    FALSE),
    Tk("high",   "", Null,  Null,  15,     FALSE),
    Tk("high",   "", Null,  Null,  5,      FALSE),
    Tk("medium", "", T0800, Null,  30,     FALSE),
    Tk("medium", "", T0800, Null,  0 - 15, FALSE) }

InitScan == InitPool(MaxStore, ScanPool)

SpecScan == InitScan /\ [][NextAuto]_vars

\* =================================================================== claims
\* The claims speak of intervals in minutes of the day; these definitions read
\* a stored task the way the specification does, independently of the code.
WellFormed(s) ==
  /\ Len(s) = 5
  /\ s[3] = ":"
  /\ \A i \in {1, 2, 4, 5} : IsDigit(s[i])
ClockMinutes(s) ==
  ((10 * DigitVal(s[1])) + DigitVal(s[2])) * 60 + (10 * DigitVal(s[4])) + DigitVal(s[5])
IDur(t) == IF t.plannedDuration = 0 THEN 30 ELSE t.plannedDuration
IStart(t) == ClockMinutes(t.plannedStartTime)
IEnd(t) == IStart(t) + IDur(t)
Min(a, b) == IF a <= b THEN a ELSE b
\* [aLo, aHi) and [bLo, bHi) share a minute
Intersect(aLo, aHi, bLo, bHi) == Max(aLo, bLo) < Min(aHi, bHi)
Active(t) == ~t.completed /\ Truthy(t.plannedStartTime)
TasksOverlap(a, b) ==
  /\ WellFormed(a.plannedStartTime)
  /\ WellFormed(b.plannedStartTime)
  /\ Intersect(IStart(a), IEnd(a), IStart(b), IEnd(b))
RelevantToday(t) == t.dueDate = today \/ t.dueDate = ""
\* the pairs of positions of active scheduled tasks whose intervals overlap
OverlappingPairs(ts) ==
  {p \in (1..Len(ts)) \X (1..Len(ts)) :
     /\ p[1] < p[2]
     /\ Active(ts[p[1]]) /\ Active(ts[p[2]])
     /\ TasksOverlap(ts[p[1]], ts[p[2]])}
NoOverlapToday(ts) ==
  \A p \in OverlappingPairs(ts) : ~(RelevantToday(ts[p[1]]) /\ RelevantToday(ts[p[2]]))

\* One auto-schedule run, read off the state.
RunIds == {sortedUnscheduled[k].id : k \in 1..Len(sortedUnscheduled)}
ProcessedIds == {sortedUnscheduled[k].id : k \in 1..(idx - 1)}
\* positions of the tasks this run has placed so far
PlacedIdx ==
  {i \in 1..Len(tasks) : tasks[i].id \in ProcessedIds /\ Truthy(tasks[i].plannedStartTime)}
\* positions of the active tasks that were already scheduled when the run began
SeedIdx == {i \in 1..Len(tasks) : Active(tasks[i]) /\ tasks[i].id \notin RunIds}
\* the committed set at this moment of the run
CommittedIdx == SeedIdx \cup PlacedIdx
AutoDone == pc = "auto" /\ idx > Len(sortedUnscheduled)

GuardedStep ==
  \/ autoPlace
  \/ \E id \in TaskIds, time \in QuickTimes : quickScheduleTask(id, time)
ManualStep ==
  \/ \E y \in DropYs : handleDrop(y)
  \/ handleResizeEnd

\* C1 as stated: no scheduling or resizing step (auto-schedule, quick-schedule,
\* timeline drop, resize end) taken from a collection without overlapping
\* active tasks for today leads to one with such an overlap.
C1_AnyStepKeepsNoOverlap ==
  [][(NoOverlapToday(tasks) /\ (GuardedStep \/ ManualStep)) => NoOverlapToday(tasks')]_vars

\* C1 amended: every auto-schedule placement and every quick-schedule taken
\* from a collection without overlapping active tasks for today leads to a
\* collection without such an overlap, and adds no overlapping pair at all.
C1_GuardedStepKeepsNoOverlap ==
  [][GuardedStep =>
       /\ OverlappingPairs(tasks') \subseteq OverlappingPairs(tasks)
       /\ (NoOverlapToday(tasks) => NoOverlapToday(tasks'))]_vars

\* An auto-schedule run has placed a task directly behind a task that was
\* already on the timeline, and nothing overlaps.
C1_Witness ==
  /\ pc = "auto"
  /\ NoOverlapToday(tasks)
  /\ \E i \in PlacedIdx, j \in SeedIdx :
       /\ WellFormed(tasks[j].plannedStartTime)
       /\ IStart(tasks[i]) = IEnd(tasks[j])

\* C2 as stated: when auto-schedule completes, no two active scheduled
\* tasks for today overlap, whatever the input collection was.
C2_NoOverlapAfterAuto == AutoDone => NoOverlapToday(tasks)

\* C2 amended: when auto-schedule completes, every overlapping pair of active
\* scheduled tasks is a pair of tasks that were both scheduled before the run.
C2_AutoAddsNoOverlap ==
  AutoDone => \A p \in OverlappingPairs(tasks) : p[1] \in SeedIdx /\ p[2] \in SeedIdx

\* A run that placed a task has completed on a collection whose already
\* scheduled tasks overlap.
C2_Witness ==
  /\ AutoDone
  /\ PlacedIdx # {}
  /\ OverlappingPairs(tasks) # {}

\* C3: the task an iteration of the run places gets a well-formed start whose
\* interval overlaps neither a task already scheduled when the run began nor
\* a task placed earlier in the run.
C3_PlacementAvoidsCommitted ==
  [][autoPlace =>
       \A i \in 1..Len(tasks) :
         (tasks[i].id = sortedUnscheduled[idx].id /\ Truthy(tasks'[i].plannedStartTime)) =>
           /\ WellFormed(tasks'[i].plannedStartTime)
           /\ \A j \in SeedIdx \cup PlacedIdx : ~TasksOverlap(tasks'[i], tasks[j])]_vars

\* A run has placed two tasks next to a task that was scheduled before it.
C3_Witness ==
  /\ pc = "auto"
  /\ Cardinality(PlacedIdx) >= 2
  /\ \E j \in SeedIdx : WellFormed(tasks[j].plannedStartTime)

\* C4: every task a run has placed starts at or after 08:00 (480) and ends at
\* or before 20:00 (1200), while the timeline itself spans hours 0 to 24.
C4_PlacedInsideWindow ==
  pc = "auto" =>
    /\ startHour = 0 /\ endHour = 24
    /\ \A i \in PlacedIdx :
         /\ WellFormed(tasks[i].plannedStartTime)
         /\ IStart(tasks[i]) >= 480
         /\ IEnd(tasks[i]) <= 1200

\* A run has placed a task that ends exactly at 20:00, and one at its
\* preferred time.
C4_Witness ==
  /\ pc = "auto"
  /\ \/ \E i \in PlacedIdx : IEnd(tasks[i]) = 1200
     \/ \E i \in PlacedIdx : tasks[i].plannedStartTime = tasks[i].preferredTime

\* the preferred slot of t is inside the window and free of the committed set
PrefFree(t) ==
  /\ WellFormed(t.preferredTime)
  /\ ClockMinutes(t.preferredTime) >= 480
  /\ ClockMinutes(t.preferredTime) + IDur(t) <= 1200
  /\ \A j \in CommittedIdx :
       WellFormed(tasks[j].plannedStartTime) =>
         ~Intersect(ClockMinutes(t.preferredTime), ClockMinutes(t.preferredTime) + IDur(t),
                    IStart(tasks[j]), IEnd(tasks[j]))

\* C5: a task whose preferred slot is inside [08:00, 20:00] and free of the
\* committed set when the task is processed gets exactly its preferredTime.
C5_PreferenceHonoredWhenFree ==
  [][(autoPlace /\ PrefFree(sortedUnscheduled[idx])) =>
       \A i \in 1..Len(tasks) :
         tasks[i].id = sortedUnscheduled[idx].id =>
           tasks'[i].plannedStartTime = sortedUnscheduled[idx].preferredTime]_vars

\* The example: one task, preferredTime 09:00, duration 30, empty schedule,
\* placed at 09:00.
C5_Witness ==
  /\ AutoDone
  /\ Len(tasks) = 1
  /\ tasks[1].preferredTime = T0900
  /\ tasks[1].plannedDuration = 30
  /\ tasks[1].plannedStartTime = T0900

\* the free candidate starts of the slot scan for a task of duration d
FreeStarts(d) ==
  {st \in 480..(1200 - d) :
     /\ (st - 480) % 15 = 0
     /\ \A j \in CommittedIdx :
          WellFormed(tasks[j].plannedStartTime) =>
            ~Intersect(st, st + d, IStart(tasks[j]), IEnd(tasks[j]))}
Least(S) == CHOOSE x \in S : \A y \in S : x <= y

\* C6: a task without preferredTime, or whose preferred slot is occupied or
\* outside the window, gets the smallest free candidate start of
\* {480, 495, ..., 1200 - duration}, and stays unscheduled when there is none.
C6_EarliestFreeSlot ==
  [][(autoPlace /\ ~PrefFree(sortedUnscheduled[idx])) =>
       \A i \in 1..Len(tasks) :
         tasks[i].id = sortedUnscheduled[idx].id =>
           LET free == FreeStarts(IDur(sortedUnscheduled[idx]))
           IN IF free = {} THEN tasks'[i].plannedStartTime = Null
              ELSE /\ WellFormed(tasks'[i].plannedStartTime)
                   /\ ClockMinutes(tasks'[i].plannedStartTime) = Least(free)]_vars

\* A task whose preferred slot was occupied has been placed by the scan, behind
\* the task that holds its preferred slot.
C6_Witness ==
  /\ pc = "auto"
  /\ \E i \in PlacedIdx, j \in CommittedIdx :
       /\ WellFormed(tasks[i].preferredTime)
       /\ tasks[j].plannedStartTime = tasks[i].preferredTime
       /\ IStart(tasks[i]) = IEnd(tasks[j])
       /\ IStart(tasks[i]) > 480

\* high = 3, medium = 2, low = 1
ClaimRank(t) ==
  IF t.priority = "high" THEN 3
  ELSE IF t.priority = "medium" THEN 2
  ELSE IF t.priority = "low" THEN 1 ELSE 0
\* the position of a task in the stored collection
OrigPos(t) == CHOOSE i \in 1..Len(tasks) : tasks[i].id = t.id
\* a is placed before b
PlacedBefore(a, b) ==
  IF Truthy(a.preferredTime) /\ Truthy(b.preferredTime) THEN OrigPos(a) < OrigPos(b)
  ELSE IF Truthy(a.preferredTime) THEN TRUE
  ELSE IF Truthy(b.preferredTime) THEN FALSE
  ELSE \/ ClaimRank(a) > ClaimRank(b)
       \/ /\ ClaimRank(a) = ClaimRank(b)
          /\ \/ IDur(a) > IDur(b)
             \/ IDur(a) = IDur(b) /\ OrigPos(a) < OrigPos(b)
\* the stored task with the id of t
Stored(t) == tasks[OrigPos(t)]

\* C7: a run processes the unscheduled active tasks in the order: tasks with
\* preferredTime in their original order, then the others by priority rank
\* descending, longer duration first, original order last; and on an empty
\* day with no preference in play, of two tasks the run placed, the one of
\* higher priority has the earlier slot.
C7_PlacementOrder ==
  pc = "auto" =>
    /\ \A k \in 1..Len(sortedUnscheduled), m \in 1..Len(sortedUnscheduled) :
         k < m => PlacedBefore(sortedUnscheduled[k], sortedUnscheduled[m])
    /\ Cardinality(RunIds) = Len(sortedUnscheduled)
    /\ idx = 1 =>
         RunIds = {tasks[i].id : i \in {j \in 1..Len(tasks) :
                                          ~Truthy(tasks[j].plannedStartTime) /\ ~tasks[j].completed}}
    /\ (SeedIdx = {} /\ \A k \in 1..Len(sortedUnscheduled) : ~Truthy(sortedUnscheduled[k].preferredTime)) =>
         \A i \in PlacedIdx, j \in PlacedIdx :
           ClaimRank(tasks[i]) > ClaimRank(tasks[j]) => IStart(tasks[i]) < IStart(tasks[j])

\* On an empty day a run has placed a high-priority task at 08:00 and a
\* lower-priority task, stored before it, directly behind it.
C7_Witness ==
  /\ AutoDone
  /\ SeedIdx = {}
  /\ \E i \in PlacedIdx, j \in PlacedIdx :
       /\ i < j
       /\ ~Truthy(tasks[i].preferredTime) /\ ~Truthy(tasks[j].preferredTime)
       /\ ClaimRank(tasks[j]) > ClaimRank(tasks[i])
       /\ IStart(tasks[j]) = 480
       /\ IStart(tasks[i]) = IEnd(tasks[j])

\* the input of the end-to-end scenario: task 1 high, 60 minutes, no
\* preference; task 2 medium, 30 minutes, preferredTime 08:00; nothing else
C8_Input ==
  /\ Len(tasks) = 2
  /\ tasks[1].id = 1 /\ tasks[1].priority = "high" /\ tasks[1].plannedDuration = 60
  /\ tasks[1].preferredTime = Null /\ ~tasks[1].completed
  /\ tasks[2].id = 2 /\ tasks[2].priority = "medium" /\ tasks[2].plannedDuration = 30
  /\ tasks[2].preferredTime = T0800 /\ ~tasks[2].completed
  /\ RunIds = {1, 2}

\* C8: on that input the run places task 2 at 08:00 and task 1 at 08:30.
C8_EndToEnd ==
  (AutoDone /\ C8_Input) =>
    /\ tasks[2].plannedStartTime = <<"0", "8", ":", "0", "0">>
    /\ tasks[1].plannedStartTime = <<"0", "8", ":", "3", "0">>
    /\ scheduledCount = 2
    /\ sortedUnscheduled[1].id = 2

\* The run on the scenario's input has completed.
C8_Witness == AutoDone /\ C8_Input /\ Truthy(tasks[1].plannedStartTime)

\* the interval [time, time + duration) of task i overlaps another
\* non-completed scheduled task
QuickOccupied(i, time) ==
  /\ WellFormed(time)
  /\ \E j \in 1..Len(tasks) :
       /\ j # i
       /\ Active(tasks[j])
       /\ WellFormed(tasks[j].plannedStartTime)
       /\ Intersect(ClockMinutes(time), ClockMinutes(time) + IDur(tasks[i]),
                    IStart(tasks[j]), IEnd(tasks[j]))

\* C10: quickScheduleTask on an occupied time rejects and leaves the collection
\* as it was; the task's own slot does not count as occupied, so on a time
\* that is free of the other tasks it commits.
C10_QuickRejectsOccupied ==
  [][\A i \in 1..Len(tasks), time \in EngineQuickTimes :
       quickScheduleTask(tasks[i].id, time) =>
         IF QuickOccupied(i, time)
         THEN tasks' = tasks /\ toast' \in {<<"Slot is occupied">>, <<"outside working hours">>}
         ELSE (WellFormed(time) /\ ClockMinutes(time) < 24 * 60) =>
                tasks'[i].plannedStartTime = time]_vars

\* A quick-schedule has just been rejected: some unscheduled task would, at
\* 08:00 or 09:00, overlap a task on the timeline.
C10_Witness ==
  /\ toast = <<"Slot is occupied">>
  /\ \E i \in 1..Len(tasks), time \in EngineQuickTimes :
       ~Truthy(tasks[i].plannedStartTime) /\ QuickOccupied(i, time)

\* the hour of a target time lies outside [0, 24): a two-digit hour of 24 or
\* more, or a negative hour
HourOutside(time) ==
  \/ WellFormed(time) /\ ClockMinutes(time) \div 60 >= 24
  \/ Len(time) >= 2 /\ time[1] = "-" /\ IsDigit(time[2]) /\ time[2] # "0"

\* C11: quickScheduleTask on a target time whose hour is outside [0, 24)
\* rejects with the out-of-range notice, whether or not the slot is occupied,
\* and changes no task.
C11_QuickRejectsOutsideHours ==
  [][\A i \in 1..Len(tasks), time \in EngineQuickTimes :
       (quickScheduleTask(tasks[i].id, time) /\ HourOutside(time)) =>
         /\ tasks' = tasks
         /\ toast' = <<"outside working hours">>]_vars

\* A quick-schedule at 24:00 has just been rejected as out of range for a task
\* whose interval there would also overlap a task that runs past midnight.
C11_Witness ==
  /\ toast = <<"outside working hours">>
  /\ \E i \in 1..Len(tasks) :
       /\ ~Truthy(tasks[i].plannedStartTime)
       /\ HourOutside(T2400)
       /\ QuickOccupied(i, T2400)

\* every task of a collection has a plannedDuration of at least 15
AllFloor(ts) == \A i \in 1..Len(ts) : ts[i].plannedDuration >= 15
ImportStep == \E file \in ImportFiles : importTasks(file)
SubmitStep == \E form \in TaskForms, id \in {0} \cup TaskIds : handleTaskSubmit(form, id)

\* C12 as stated: in every reachable state every task has plannedDuration >= 15.
C12_DurationFloorAlways == AllFloor(tasks)

\* C12 amended: a form submit (create or update) and a resize end that
\* commits leave the task they write with plannedDuration >= 15, and no step other than an
\* import takes a collection whose durations are all >= 15 to one with a
\* shorter duration.
C12_DurationFloorExceptImport ==
  [][/\ (AllFloor(tasks) /\ ~ImportStep) => AllFloor(tasks')
     /\ SubmitStep =>
          \A i \in 1..Len(tasks') :
            (i <= Len(tasks') - Len(tasks) => tasks'[i].plannedDuration >= 15)
            /\ (Len(tasks') = Len(tasks) /\ tasks'[i] # tasks[i]
                  => tasks'[i].plannedDuration >= 15)
     /\ (handleResizeEnd /\ resizingTask # Null /\ resizingTask[1].onTimeline) =>
          \A i \in 1..Len(tasks) :
            tasks[i].id = resizingTask[1].task.id => tasks'[i].plannedDuration >= 15]_vars

\* A form submitted with a duration of 0 minutes has updated a task to 15
\* minutes, next to a task kept at the 30 minutes it was created with.
C12_Witness ==
  /\ toast = <<"Task updated!">>
  /\ AllFloor(tasks)
  /\ \E i \in 1..Len(tasks), j \in 1..Len(tasks) :
       tasks[i].plannedDuration = 15 /\ tasks[j].plannedDuration = 30

\* a resize is in progress (state Resizing); the element of its task
Resizing == resizingTask # Null
Abs(x) == IF x >= 0 THEN x ELSE 0 - x
\* round(m / 15) * 15: the multiple of 15 nearest to m, the upper one on a tie
NearestQuarter(m) ==
  CHOOSE q \in {15 * k : k \in 0..((m \div 15) + 1)} :
    \A r \in {15 * k : k \in 0..((m \div 15) + 1)} :
      \/ Abs(q - m) < Abs(r - m)
      \/ Abs(q - m) = Abs(r - m) /\ q >= r

C14_ResizeNeverStuck ==
  /\ [](Resizing => ENABLED (handleResizeEnd /\ resizingTask' = Null))
  /\ [][/\ \A t \in Range(tasks), clientY \in ResizeGrabYs :
             (~Resizing /\ handleResizeStart(t, clientY)) =>
               (resizingTask' # Null /\ resizingTask'[1].task = t)
        /\ (Resizing /\ handleResizeEnd) => resizingTask' = Null]_vars

\* Resizing with the element of the captured task gone from the timeline: the
\* task was unscheduled under the resize and the timeline was rendered again.
C14_Witness ==
  /\ Resizing
  /\ ~resizingTask[1].onTimeline
  /\ \E i \in 1..Len(tasks) :
       tasks[i].id = resizingTask[1].task.id /\ ~Truthy(tasks[i].plannedStartTime)

\* the code's overlap test on a candidate (aTime, aDur) against a scheduled
\* task (bTime, bDur)
CodeOverlap(aTime, aDur, bTime, bDur) ==
  overlaps(startMins(aTime), Plus(startMins(aTime), aDur),
           <<[plannedStartTime |-> bTime, plannedDuration |-> bDur]>>)
\* the intervals the engine meets: those of the stored tasks that carry a
\* start time, and those of each task at each quick-schedule target time
MetIntervals ==
  {<<tasks[i].plannedStartTime, IDur(tasks[i])>> :
     i \in {j \in 1..Len(tasks) : Truthy(tasks[j].plannedStartTime)}}
  \cup {<<time, IDur(tasks[i])>> : time \in EngineQuickTimes, i \in 1..Len(tasks)}

\* C15: the overlap test gives the same answer whichever of two intervals is
\* the candidate and whichever the scheduled task.
C15_OverlapSymmetric ==
  \A a \in MetIntervals, b \in MetIntervals :
    CodeOverlap(a[1], a[2], b[1], b[2]) <=> CodeOverlap(b[1], b[2], a[1], a[2])

\* A quick-schedule has been rejected in a store with a task at 09:00 for 60
\* minutes and one at 09:30 for 30 minutes: the start of the second lies in
\* the first, the start of the first does not lie in the second.
C15_Witness ==
  /\ toast = <<"Slot is occupied">>
  /\ \E i \in 1..Len(tasks), j \in 1..Len(tasks) :
       /\ tasks[i].plannedStartTime = T0900 /\ IDur(tasks[i]) = 60
       /\ tasks[j].plannedStartTime = T0930 /\ IDur(tasks[j]) = 30
       /\ CodeOverlap(T0900, 60, T0930, 30)

\* task i, placed at time, would touch active scheduled task j at an endpoint
Touches(i, time, j) ==
  /\ j # i /\ Active(tasks[j])
  /\ WellFormed(time) /\ WellFormed(tasks[j].plannedStartTime)
  /\ \/ ClockMinutes(time) = IEnd(tasks[j])
     \/ ClockMinutes(time) + IDur(tasks[i]) = IStart(tasks[j])

\* C16: on well-formed times the overlap test is aStart < bEnd /\ aEnd > bStart,
\* so intervals that only touch do not overlap; a quick-schedule onto a time
\* that touches a neighbour and overlaps no active task commits, and an
\* auto-schedule scan whose first free start is the end of a committed task
\* places the task there.
C16_HalfOpenOverlap ==
  /\ [](\A a \in MetIntervals, b \in MetIntervals :
          (WellFormed(a[1]) /\ WellFormed(b[1])) =>
            (CodeOverlap(a[1], a[2], b[1], b[2]) <=>
               (/\ ClockMinutes(a[1]) < ClockMinutes(b[1]) + b[2]
                /\ ClockMinutes(a[1]) + a[2] > ClockMinutes(b[1]))))
  /\ [][/\ \A i \in 1..Len(tasks), time \in EngineQuickTimes :
             (/\ quickScheduleTask(tasks[i].id, time)
              /\ ~HourOutside(time)
              /\ ~QuickOccupied(i, time)
              /\ \E j \in 1..Len(tasks) : Touches(i, time, j))
               => tasks'[i].plannedStartTime = time
        /\ autoPlace =>
             \A i \in 1..Len(tasks), j \in CommittedIdx :
               LET free == FreeStarts(IDur(tasks[i]))
               IN (/\ tasks[i].id = sortedUnscheduled[idx].id
                   /\ ~Truthy(tasks[i].preferredTime)
                   /\ WellFormed(tasks[j].plannedStartTime)
                   /\ free # {}
                   /\ Least(free) = IEnd(tasks[j]))
                    => /\ WellFormed(tasks'[i].plannedStartTime)
                       /\ IStart(tasks'[i]) = IEnd(tasks[j])]_vars

\* A task has just been quick-scheduled at 09:00, the minute at which an
\* active task that starts at 08:00 ends.
C16_Witness ==
  /\ toast = <<"Scheduled">>
  /\ \E i \in 1..Len(tasks), j \in 1..Len(tasks) :
       /\ Active(tasks[i]) /\ Active(tasks[j])
       /\ tasks[i].plannedStartTime = T0900
       /\ tasks[j].plannedStartTime = T0800
       /\ IEnd(tasks[j]) = IStart(tasks[i])

\* no active task of the store carries a start time
NoActiveScheduled == \A j \in 1..Len(tasks) : ~Active(tasks[j])

\* C17: completed tasks never block and are never placed: auto-schedule and
\* quick-schedule write no completed task's start time by a run's placement,
\* and in a store whose only scheduled tasks are completed a quick-schedule
\* inside the timeline always commits and the first task a run places
\* without a preference gets 08:00.
C17_CompletedNeverBlock ==
  [][/\ autoPlace =>
          \A i \in 1..Len(tasks) :
            /\ tasks'[i] # tasks[i] => ~tasks[i].completed
            /\ (/\ tasks[i].id = sortedUnscheduled[idx].id
                /\ CommittedIdx = {}
                /\ ~Truthy(tasks[i].preferredTime)
                /\ IDur(tasks[i]) <= 720)
                 => tasks'[i].plannedStartTime = T0800
     /\ \A i \in 1..Len(tasks), time \in EngineQuickTimes :
          (/\ quickScheduleTask(tasks[i].id, time)
           /\ WellFormed(time) /\ ~HourOutside(time)
           /\ \A j \in 1..Len(tasks) : j # i => ~Active(tasks[j]))
            => tasks'[i].plannedStartTime = time]_vars

\* An active task and a completed task both sit at 08:00: the active one was
\* placed there by a run or a quick-schedule, on the completed task's interval.
C17_Witness ==
  /\ toast = <<"Scheduled">> \/ (pc = "auto" /\ PlacedIdx # {})
  /\ \E i \in 1..Len(tasks), j \in 1..Len(tasks) :
       /\ Active(tasks[i]) /\ tasks[i].plannedStartTime = T0800
       /\ (toast = <<"Scheduled">> \/ i \in PlacedIdx)
       /\ tasks[j].completed /\ tasks[j].plannedStartTime = T0800

\* the drop offset in minutes (60 px per hour, 16 px of header) snapped to
\* the nearest multiple of 15
DropSnap(y) ==
  LET near == {15 * k : k \in (((y - 16) \div 15) - 1)..(((y - 16) \div 15) + 2)}
  IN CHOOSE q \in near :
       \A r \in near :
         \/ Abs(q - (y - 16)) < Abs(r - (y - 16))
         \/ Abs(q - (y - 16)) = Abs(r - (y - 16)) /\ q >= r
\* the snapped time has an hour outside [0, 24)
DropHourOutside(y) == DropSnap(y) < 0 \/ DropSnap(y) >= 24 * 60
\* HH:MM of a minute of the day
ClaimTime(m) ==
  <<Digits[(m \div 600) + 1], Digits[((m \div 60) % 10) + 1], ":",
    Digits[((m % 60) \div 10) + 1], Digits[(m % 10) + 1]>>

\* C18: a timeline drop whose snapped time has an hour outside [0, 24) changes
\* no task and shows nothing.
C18_DropOutsideIgnored ==
  [][\A y \in DropYs :
       (handleDrop(y) /\ DropHourOutside(y)) => (tasks' = tasks /\ toast' = toast)]_vars

\* A task that is on the timeline is being dragged, and a drop above the first
\* slot and a drop that snaps to 24:00 are both about to be possible.
C18_Witness ==
  /\ draggedTask # Null
  /\ Truthy(draggedTask[1].plannedStartTime)
  /\ \E y \in DropYs : DropSnap(y) < 0 /\ ENABLED handleDrop(y)
  /\ \E y \in DropYs : DropSnap(y) = 24 * 60 /\ ENABLED handleDrop(y)

\* C19: a timeline drop inside the window gives the dragged task the snapped
\* time (minute part 00, 15, 30 or 45) as plannedStartTime, keeps its
\* plannedDuration (30 if it has none), sets dueDate to today only if it had
\* none, and changes no other task.
C19_DropInsideWindow ==
  [][\A y \in DropYs :
       (handleDrop(y) /\ ~DropHourOutside(y)) =>
         /\ (DropSnap(y) % 60) \in {0, 15, 30, 45}
         /\ Len(tasks') = Len(tasks)
         /\ \A i \in 1..Len(tasks) :
              IF tasks[i].id = draggedTask[1].id
              THEN tasks'[i] =
                     [tasks[i] EXCEPT
                        !.plannedStartTime = ClaimTime(DropSnap(y)),
                        !.plannedDuration = IF @ = 0 THEN 30 ELSE @,
                        !.dueDate = IF @ = "" THEN today ELSE @]
              ELSE tasks'[i] = tasks[i]]_vars

\* A drop has just put at 08:00 a task that had no due date and no duration
\* (now today and 30 minutes), next to a task whose due date is another day.
C19_Witness ==
  /\ toast = <<"Scheduled for">>
  /\ \E i \in 1..Len(tasks), j \in 1..Len(tasks) :
       /\ tasks[i].priority = "high"
       /\ tasks[i].plannedStartTime = T0800
       /\ tasks[i].dueDate = today
       /\ tasks[i].plannedDuration = 30
       /\ tasks[j].dueDate = otherDay

\* task i of a collection overlaps another active scheduled task of it
OverlapsActive(ts, i) ==
  \E j \in 1..Len(ts) : j # i /\ Active(ts[j]) /\ TasksOverlap(ts[i], ts[j])

\* C20: a timeline drop inside the window commits its time and a resize end
\* commits its duration whether or not the resulting interval overlaps
\* another active task, while a step of auto-schedule or quick-schedule
\* never gives a task a start time at which it overlaps an active scheduled
\* task.
C20_ManualPermissiveGuardedNot ==
  [][/\ \A y \in DropYs :
          (handleDrop(y) /\ ~DropHourOutside(y)) =>
            \A i \in 1..Len(tasks) :
              tasks[i].id = draggedTask[1].id =>
                tasks'[i].plannedStartTime = ClaimTime(DropSnap(y))
     /\ (handleResizeEnd /\ Resizing /\ resizingTask[1].onTimeline) =>
          \A i \in 1..Len(tasks) :
            tasks[i].id = resizingTask[1].task.id =>
              tasks'[i].plannedDuration = Max(15, NearestQuarter(resizingTask[1].offsetHeight))
     /\ GuardedStep =>
          \A i \in 1..Len(tasks) :
            (tasks'[i].plannedStartTime # tasks[i].plannedStartTime) =>
              ~OverlapsActive(tasks', i)]_vars

\* A resize has just grown an active task at 08:00 to 30 minutes, into the
\* interval of the active task that auto-schedule had placed behind it at
\* 08:15.
C20_Witness ==
  /\ toast = <<"Duration updated to", 30>>
  /\ \E i \in 1..Len(tasks), j \in 1..Len(tasks) :
       /\ Active(tasks[i]) /\ Active(tasks[j])
       /\ tasks[i].priority = "high" /\ tasks[i].preferredTime = Null
       /\ tasks[i].plannedStartTime = T0800 /\ tasks[i].plannedDuration = 30
       /\ tasks[j].plannedStartTime = <<"0", "8", ":", "1", "5">>
       /\ TasksOverlap(tasks[i], tasks[j])


\* ---- the run the specification describes, computed on a collection ts
\* positions of the scheduling candidates of ts
RefCandidates(ts) ==
  {i \in 1..Len(ts) : ~Truthy(ts[i].plannedStartTime) /\ ~ts[i].completed}
\* candidate i is attempted before candidate j
RefBefore(ts, i, j) ==
  IF Truthy(ts[i].preferredTime) /\ Truthy(ts[j].preferredTime) THEN i < j
  ELSE IF Truthy(ts[i].preferredTime) THEN TRUE
  ELSE IF Truthy(ts[j].preferredTime) THEN FALSE
  ELSE \/ ClaimRank(ts[i]) > ClaimRank(ts[j])
       \/ /\ ClaimRank(ts[i]) = ClaimRank(ts[j])
          /\ \/ IDur(ts[i]) > IDur(ts[j])
             \/ IDur(ts[i]) = IDur(ts[j]) /\ i < j
\* the k-th candidate in placement order
RefNth(ts, k) ==
  CHOOSE i \in RefCandidates(ts) :
    Cardinality({j \in RefCandidates(ts) : RefBefore(ts, j, i)}) = k - 1
\* [st, st + d) lies in [08:00, 20:00] and meets no active scheduled task of ts
RefFree(ts, st, d) ==
  /\ st >= 480 /\ st + d <= 1200
  /\ \A j \in 1..Len(ts) :
       (Active(ts[j]) /\ WellFormed(ts[j].plannedStartTime)) =>
         ~Intersect(st, st + d, IStart(ts[j]), IEnd(ts[j]))
RefStarts(ts, d) == {st \in 480..(1200 - d) : (st - 480) % 15 = 0 /\ RefFree(ts, st, d)}
\* the start the candidate at position i gets
RefSlot(ts, i) ==
  IF /\ WellFormed(ts[i].preferredTime)
     /\ RefFree(ts, ClockMinutes(ts[i].preferredTime), IDur(ts[i]))
  THEN ts[i].preferredTime
  ELSE IF RefStarts(ts, IDur(ts[i])) # {}
       THEN ClaimTime(Least(RefStarts(ts, IDur(ts[i]))))
       ELSE Null
RECURSIVE RefPlace(_, _, _)
\* the candidates from the k-th on placed one after the other (n candidates;
\* ts0 is the input, which fixes the order)
RefPlace(ts0, ts, k) ==
  IF k > Cardinality(RefCandidates(ts0)) THEN ts
  ELSE RefPlace(ts0,
                [ts EXCEPT ![RefNth(ts0, k)].plannedStartTime = RefSlot(ts, RefNth(ts0, k))],
                k + 1)
RefRun(ts) == RefPlace(ts, ts, 1)

\* the collection the current run started from
RunInput ==
  [i \in 1..Len(tasks) |->
     IF tasks[i].id \in RunIds THEN [tasks[i] EXCEPT !.plannedStartTime = Null] ELSE tasks[i]]
Malformed(s) == Truthy(s) /\ ~WellFormed(s)
\* ts with every malformed preferredTime cleared
PreferenceCleared(ts) ==
  [i \in 1..Len(ts) |->
     IF Malformed(ts[i].preferredTime) THEN [ts[i] EXCEPT !.preferredTime = Null] ELSE ts[i]]

\* C21: when a run completes, every task has the start that the run described
\* by the specification gives it on the same input with each malformed
\* preferredTime cleared (the same placement order and the same slots).
C21_MalformedPreferenceAsAbsent ==
  AutoDone =>
    \A i \in 1..Len(tasks) :
      tasks[i].plannedStartTime = RefRun(PreferenceCleared(RunInput))[i].plannedStartTime

\* On inputs without a malformed preferredTime the completed run is the run
\* the specification describes.
RefRunAgrees ==
  (AutoDone /\ \A i \in 1..Len(tasks) : ~Malformed(tasks[i].preferredTime)) =>
    \A i \in 1..Len(tasks) :
      tasks[i].plannedStartTime = RefRun(RunInput)[i].plannedStartTime


\* a missing plannedDuration plays a part in what is computed for task i
MissingInvolved(i) ==
  \/ tasks[i].plannedDuration = 0
  \/ \E j \in 1..Len(tasks) : j # i /\ Active(tasks[j]) /\ tasks[j].plannedDuration = 0

\* C22: a record without plannedDuration counts as 30 minutes: the sort of
\* the tasks without preference puts it behind longer and before shorter
\* tasks of its priority; an auto-schedule candidate gets the start computed
\* with 30 minutes for itself and for every committed task that lacks a
\* duration; quick-schedule rejects exactly when the interval computed that
\* way is occupied; and a drop inside the window stores 30 as its duration.
C22_MissingDurationIsThirty ==
  [][/\ autoStart =>
          \A k \in 1..Len(sortedUnscheduled'), m \in 1..Len(sortedUnscheduled') :
            LET a == sortedUnscheduled'[k]
                b == sortedUnscheduled'[m]
            IN (/\ k < m /\ ~Truthy(a.preferredTime) /\ ~Truthy(b.preferredTime)
                /\ a.priority = b.priority /\ (a.plannedDuration = 0 \/ b.plannedDuration = 0))
                 => (IF a.plannedDuration = 0 THEN 30 ELSE a.plannedDuration)
                      >= (IF b.plannedDuration = 0 THEN 30 ELSE b.plannedDuration)
     /\ autoPlace =>
          \A i \in 1..Len(tasks) :
            (tasks[i].id = sortedUnscheduled[idx].id /\ MissingInvolved(i)) =>
              tasks'[i].plannedStartTime = RefSlot(tasks, i)
     /\ \A i \in 1..Len(tasks), time \in EngineQuickTimes :
          (/\ quickScheduleTask(tasks[i].id, time) /\ MissingInvolved(i)
           /\ WellFormed(time) /\ ClockMinutes(time) < 24 * 60) =>
            IF QuickOccupied(i, time) THEN tasks' = tasks
            ELSE tasks'[i].plannedStartTime = time
     /\ \A y \in DropYs :
          (handleDrop(y) /\ ~DropHourOutside(y) /\ draggedTask[1].plannedDuration = 0) =>
            \A i \in 1..Len(tasks) :
              tasks[i].id = draggedTask[1].id => tasks'[i].plannedDuration = 30]_vars

\* A run has placed a task without plannedDuration at 08:30, directly behind
\* the 30 minutes of a task without plannedDuration that was at 08:00.
C22_Witness ==
  /\ pc = "auto"
  /\ \E i \in PlacedIdx, j \in SeedIdx :
       /\ tasks[i].plannedDuration = 0 /\ tasks[j].plannedDuration = 0
       /\ tasks[j].plannedStartTime = T0800
       /\ tasks[i].plannedStartTime = <<"0", "8", ":", "3", "0">>


\* the tasks whose plannedStartTime went from unset to set in the current run
NewlySet ==
  {i \in 1..Len(tasks) :
     ~Truthy(RunInput[i].plannedStartTime) /\ Truthy(tasks[i].plannedStartTime)}
NoticeNone == <<"No unscheduled tasks to optimize.">>
NoticeNoCapacity == <<"Could not find empty slots for remaining tasks.">>

\* C23: a run over an empty unscheduled set ends at once with the 'no
\* unscheduled tasks' notice; any other run goes through every task and
\* ends with the number of tasks it gave a start, or, when that number is
\* zero, with the 'no capacity' notice, which is neither of the other two;
\* every step of the run goes on to the next task, placed or not.
C23_CountReported ==
  [][/\ autoPlace =>
          /\ pc' = "auto" /\ idx' = idx + 1 /\ toast' = toast
          /\ scheduledCount' = Cardinality(NewlySet')
     /\ autoFinish =>
          /\ idx = Len(sortedUnscheduled) + 1
          /\ toast' = IF NewlySet # {} THEN <<"Auto-scheduled", Cardinality(NewlySet)>>
                      ELSE NoticeNoCapacity
          /\ NoticeNoCapacity # NoticeNone
          /\ NoticeNoCapacity[1] # "Auto-scheduled"
     /\ autoStart =>
          IF \E i \in 1..Len(tasks) : ~Truthy(tasks[i].plannedStartTime) /\ ~tasks[i].completed
          THEN pc' = "auto" /\ toast' = toast
          ELSE pc' = "idle" /\ toast' = NoticeNone /\ tasks' = tasks]_vars

\* A run over a non-empty unscheduled set has ended with the 'no capacity'
\* notice: a task is still unscheduled and not completed.
C23_Witness ==
  /\ pc = "idle"
  /\ toast = NoticeNoCapacity
  /\ \E i \in 1..Len(tasks) : ~Truthy(tasks[i].plannedStartTime) /\ ~tasks[i].completed


\* a run has ended before the current one (the notice of a run stays up)
AfterARun == toast # <<>>

\* C24: a run started directly after a run gives no task a start and changes
\* no task: each of its steps leaves the collection as it is, and it ends
\* with the 'no capacity' notice.
C24_SecondRunPlacesNothing ==
  [][/\ (autoPlace /\ AfterARun) => (tasks' = tasks /\ scheduledCount' = 0)
     /\ (autoFinish /\ AfterARun) => toast' = NoticeNoCapacity]_vars

\* The second run, after a run that placed a task, has gone through a task
\* the first run could not place.
C24_Witness ==
  /\ pc = "auto" /\ idx > 1
  /\ toast # <<>> /\ toast[1] = "Auto-scheduled"
  /\ \E i \in 1..Len(tasks) : Active(tasks[i]) /\ tasks[i].id \notin RunIds


\* C25: a quick-schedule that commits leaves the collection as it was except
\* for the plannedStartTime of the target task, which is the given time:
\* the target's id, priority, dueDate, preferredTime, plannedDuration and
\* completed flag, and every other task, are the same.
C25_QuickWritesStartOnly ==
  [][\A i \in 1..Len(tasks), time \in EngineQuickTimes :
       (quickScheduleTask(tasks[i].id, time) /\ toast' = <<"Scheduled">>) =>
         /\ Len(tasks') = Len(tasks)
         /\ \A j \in 1..Len(tasks) : j # i => tasks'[j] = tasks[j]
         /\ tasks'[i].plannedStartTime = time
         /\ tasks'[i].plannedDuration = tasks[i].plannedDuration
         /\ tasks'[i].dueDate = tasks[i].dueDate
         /\ tasks'[i].completed = tasks[i].completed
         /\ tasks'[i].id = tasks[i].id
         /\ tasks'[i].priority = tasks[i].priority
         /\ tasks'[i].preferredTime = tasks[i].preferredTime]_vars

\* A quick-schedule has put a task without due date and without stored
\* duration at 09:00, next to another task, and both fields are still unset.
C25_Witness ==
  /\ toast = <<"Scheduled">>
  /\ Len(tasks) = 2
  /\ \E i \in 1..Len(tasks) :
       /\ tasks[i].plannedStartTime = T0900
       /\ tasks[i].plannedDuration = 0
       /\ tasks[i].dueDate = ""


\* the active scheduled subset: not completed, on the timeline, relevant to today
ActiveToday(t) == Active(t) /\ RelevantToday(t)
\* [st, st + d) lies in [lo, hi] and meets no task of the active scheduled
\* subset of ts other than the one at position i
FreeToday(ts, i, st, d, lo, hi) ==
  /\ st >= lo /\ st + d <= hi
  /\ \A j \in 1..Len(ts) :
       (j # i /\ ActiveToday(ts[j]) /\ WellFormed(ts[j].plannedStartTime)) =>
         ~Intersect(st, st + d, IStart(ts[j]), IEnd(ts[j]))
StartsToday(ts, i) ==
  {st \in 480..(1200 - IDur(ts[i])) :
     (st - 480) % 15 = 0 /\ FreeToday(ts, i, st, IDur(ts[i]), 480, 1200)}
\* the start candidate i gets when only the active scheduled subset blocks
SlotToday(ts, i) ==
  IF /\ WellFormed(ts[i].preferredTime)
     /\ FreeToday(ts, i, ClockMinutes(ts[i].preferredTime), IDur(ts[i]), 480, 1200)
  THEN ts[i].preferredTime
  ELSE IF StartsToday(ts, i) # {} THEN ClaimTime(Least(StartsToday(ts, i))) ELSE Null

\* C26: only non-completed scheduled tasks relevant to today block a
\* placement: quick-schedule commits a time in hours 0 to 23 whose interval
\* meets no such task, and an auto-schedule step gives its task the start
\* that is free of such tasks, whatever tasks due another day are on it.
C26_OnlyTodayBlocks ==
  [][/\ \A i \in 1..Len(tasks), time \in EngineQuickTimes :
          (/\ quickScheduleTask(tasks[i].id, time)
           /\ WellFormed(time) /\ ClockMinutes(time) < 24 * 60
           /\ FreeToday(tasks, i, ClockMinutes(time), IDur(tasks[i]), 0, 48 * 60)) =>
            tasks'[i].plannedStartTime = time
     /\ autoPlace =>
          \A i \in 1..Len(tasks) :
            tasks[i].id = sortedUnscheduled[idx].id =>
              tasks'[i].plannedStartTime = SlotToday(tasks, i)]_vars


\* C27: no step of an auto-schedule run gives a plannedStartTime to a task
\* whose dueDate is a day other than today.
C27_AutoPlacesTodayOnly ==
  [][autoPlace =>
       \A i \in 1..Len(tasks) :
         ~RelevantToday(tasks[i]) =>
           tasks'[i].plannedStartTime = tasks[i].plannedStartTime]_vars


\* the task of the current step has no free candidate start: its preferred
\* slot is not free and the scan finds nothing
NoFreeStart ==
  /\ ~PrefFree(sortedUnscheduled[idx])
  /\ FreeStarts(IDur(sortedUnscheduled[idx])) = {}

\* C28: a step of the run whose task has no free candidate start, as is the
\* case for every task longer than 720 minutes, leaves the whole collection
\* as it is and moves on to the next task of the run.
C28_NoSlotLeavesTask ==
  [][/\ (autoPlace /\ IDur(sortedUnscheduled[idx]) > 720) => NoFreeStart
     /\ (autoPlace /\ NoFreeStart) =>
          /\ tasks' = tasks
          /\ pc' = "auto" /\ idx' = idx + 1
          /\ sortedUnscheduled' = sortedUnscheduled
          /\ toast' = toast]_vars

\* A run has passed over a task longer than the window and has then placed
\* the task after it.
C28_Witness ==
  /\ pc = "auto"
  /\ \E k \in 1..Len(sortedUnscheduled), m \in 1..Len(sortedUnscheduled) :
       /\ k < m /\ m < idx
       /\ IDur(sortedUnscheduled[k]) > 720
       /\ ~Truthy(Stored(sortedUnscheduled[k]).plannedStartTime)
       /\ Truthy(Stored(sortedUnscheduled[m]).plannedStartTime)


\* ---- the most tasks of the run that any assignment of starts could place
\* positions of the tasks of the current run
RunIdx == {i \in 1..Len(tasks) : tasks[i].id \in RunIds}
\* the aligned starts from minute `from` on at which d minutes fit into the
\* window without meeting a task that was scheduled before the run
StartsFrom(from, d) ==
  {st \in 480..(1200 - d) :
     /\ (st - 480) % 15 = 0 /\ st >= from
     /\ \A j \in SeedIdx :
          WellFormed(tasks[j].plannedStartTime) =>
            ~Intersect(st, st + d, IStart(tasks[j]), IEnd(tasks[j]))}
RECURSIVE PacksFrom(_, _, _)
\* the tasks q[k], q[k+1], ... can be given starts in this order of time, none
\* before `from`: each goes to its earliest possible start
PacksFrom(q, k, from) ==
  IF k > Len(q) THEN TRUE
  ELSE /\ StartsFrom(from, IDur(tasks[q[k]])) # {}
       /\ PacksFrom(q, k + 1, Least(StartsFrom(from, IDur(tasks[q[k]]))) + IDur(tasks[q[k]]))
\* some overlap-free assignment of aligned starts in the window places all of S
Placeable(S) ==
  \E q \in [1..Cardinality(S) -> S] :
    /\ \A a \in 1..Cardinality(S), b \in 1..Cardinality(S) : a # b => q[a] # q[b]
    /\ PacksFrom(q, 1, 480)
MaxPlaceable ==
  CHOOSE n \in 0..Len(tasks) :
    /\ \E S \in SUBSET RunIdx : Cardinality(S) = n /\ Placeable(S)
    /\ \A S \in SUBSET RunIdx : Placeable(S) => Cardinality(S) <= n

\* C29 as stated: the number of tasks a completed run has placed is the
\* largest number of its tasks that any overlap-free assignment of aligned
\* starts inside the window could place next to the tasks scheduled before.
C29_PlacesMaximumNumber == AutoDone => Cardinality(NewlySet) = MaxPlaceable

\* C29 amended: the placement of a completed run cannot be extended: no task
\* the run left unscheduled has a free aligned start in the window next to
\* the tasks now scheduled, nor is its preferred slot free.
C29_PlacementCannotBeExtended ==
  AutoDone =>
    \A i \in RunIdx :
      ~Truthy(tasks[i].plannedStartTime) =>
        /\ FreeStarts(IDur(tasks[i])) = {}
        /\ ~PrefFree(tasks[i])

\* A completed run has placed a task, and fewer tasks than could be placed.
C29_Witness ==
  /\ AutoDone
  /\ Cardinality(NewlySet) > 0
  /\ Cardinality(NewlySet) < MaxPlaceable


\* C30: a pointer move during a resize leaves the stored collection as it
\* is, and the height it gives the element of the task is the height at the
\* grab plus the distance moved, or 15 when that is less than 15.
C30_MovePersistsNothing ==
  [][\A y \in ResizeMoveYs :
       handleResizeMove(y) =>
         /\ tasks' = tasks
         /\ (Resizing /\ resizingTask[1].onTimeline) =>
              /\ resizingTask'[1].offsetHeight >= 15
              /\ resizingTask'[1].offsetHeight =
                   (IF resizingTask[1].resizeStartHeight + (y - resizingTask[1].resizeStartY) < 15
                    THEN 15
                    ELSE resizingTask[1].resizeStartHeight + (y - resizingTask[1].resizeStartY))]_vars

\* A move 100px upwards has brought the element of a 30-minute task to the
\* 15px floor, and the stored task still has its 30 minutes.
C30_Witness ==
  /\ Resizing
  /\ resizingTask[1].onTimeline
  /\ resizingTask[1].resizeStartHeight = 30
  /\ resizingTask[1].offsetHeight = 15
  /\ \E i \in 1..Len(tasks) :
       tasks[i].id = resizingTask[1].task.id /\ tasks[i].plannedDuration = 30


\* ts2 is ts1 except, at most, for the plannedDuration of the task with this id
OnlyDurationOf(ts1, ts2, id) ==
  /\ Len(ts2) = Len(ts1)
  /\ \A j \in 1..Len(ts1) :
       IF ts1[j].id = id
       THEN /\ ts2[j].id = ts1[j].id
            /\ ts2[j].plannedStartTime = ts1[j].plannedStartTime
            /\ ts2[j].dueDate = ts1[j].dueDate
            /\ ts2[j].completed = ts1[j].completed
            /\ ts2[j].priority = ts1[j].priority
            /\ ts2[j].preferredTime = ts1[j].preferredTime
       ELSE ts2[j] = ts1[j]

\* C31: the grab and the moves of a resize change no stored task, and its
\* end changes at most the plannedDuration of the task being resized: that
\* task keeps its id, plannedStartTime (so it stays scheduled), dueDate and
\* completed flag, and every other task is as before.
C31_ResizeWritesDurationOnly ==
  [][/\ (\E t \in Range(tasks), clientY \in ResizeGrabYs : handleResizeStart(t, clientY))
          => tasks' = tasks
     /\ (\E y \in ResizeMoveYs : handleResizeMove(y)) => tasks' = tasks
     /\ (handleResizeEnd /\ Resizing) =>
          OnlyDurationOf(tasks, tasks', resizingTask[1].task.id)]_vars

\* A resize of a task at 09:30 from 30 to 15 minutes has ended, next to
\* another task.
C31_Witness ==
  /\ toast = <<"Duration updated to", 15>>
  /\ resizingTask = Null
  /\ Len(tasks) = 2
  /\ \E i \in 1..Len(tasks) :
       tasks[i].plannedStartTime = T0930 /\ tasks[i].plannedDuration = 15


\* the task with this id is in a list the planner renders
Listed(list, id) == \E k \in 1..Len(list) : list[k].id = id
\* the list shows stored tasks, each at most once
ListsStored(list) ==
  /\ \A k \in 1..Len(list) : \E i \in 1..Len(tasks) : tasks[i] = list[k]
  /\ \A k \in 1..Len(list), m \in 1..Len(list) : k # m => list[k].id # list[m].id

\* C32: of the tasks due today or without due date, a task that is not
\* completed is in the unscheduled list when it has no plannedStartTime and
\* in the scheduled list when it has one, and in no other list; a completed
\* task is in the completed list, in the scheduled list too exactly when it
\* has a plannedStartTime, and never in the unscheduled list; a task due
\* another day is in none of the lists.
C32_RenderPartition ==
  /\ ListsStored(renderUnscheduled) /\ ListsStored(renderScheduled)
  /\ ListsStored(renderCompleted)
  /\ \A i \in 1..Len(tasks) :
       LET t == tasks[i]
           inU == Listed(renderUnscheduled, t.id)
           inS == Listed(renderScheduled, t.id)
           inC == Listed(renderCompleted, t.id)
           has == t.plannedStartTime # <<>>
       IN IF t.dueDate # today /\ t.dueDate # ""
          THEN ~inU /\ ~inS /\ ~inC
          ELSE IF t.completed
               THEN inC /\ ~inU /\ (inS <=> has)
               ELSE ~inC /\ (inU <=> ~has) /\ (inS <=> has)

\* The store holds a completed task for today with a plannedStartTime and
\* one without, after a task on the timeline was checked off and another
\* was checked off and taken off the timeline.
C32_Witness ==
  /\ toast = <<"Task unscheduled">>
  /\ \E i \in 1..Len(tasks), j \in 1..Len(tasks) :
       /\ tasks[i].completed /\ Truthy(tasks[i].plannedStartTime)
       /\ Listed(renderScheduled, tasks[i].id) /\ Listed(renderCompleted, tasks[i].id)
       /\ tasks[j].completed /\ ~Truthy(tasks[j].plannedStartTime)
       /\ Listed(renderCompleted, tasks[j].id)


\* ts2 is ts1 with the plannedStartTime of the task at position i cleared
StartCleared(ts1, ts2, i) ==
  /\ Len(ts2) = Len(ts1)
  /\ \A j \in 1..Len(ts1) : j # i => ts2[j] = ts1[j]
  /\ ts2[i].plannedStartTime = <<>>
  /\ ts2[i].plannedDuration = ts1[i].plannedDuration
  /\ ts2[i].dueDate = ts1[i].dueDate
  /\ ts2[i].completed = ts1[i].completed
  /\ ts2[i].id = ts1[i].id
  /\ ts2[i].priority = ts1[i].priority
  /\ ts2[i].preferredTime = ts1[i].preferredTime
IdsOf(seq) == {seq[k].id : k \in 1..Len(seq)}
\* what a run takes as its candidates and as its committed set, and what
\* makes quick-schedule reject, is read off the plannedStartTime
EngineReadsStart ==
  /\ (autoStart /\ pc' = "auto") =>
       /\ IdsOf(sortedUnscheduled') =
            {tasks[j].id : j \in {m \in 1..Len(tasks) :
                                    tasks[m].plannedStartTime = <<>> /\ ~tasks[m].completed}}
       /\ IdsOf(scheduled') =
            {tasks[j].id : j \in {m \in 1..Len(tasks) :
                                    tasks[m].plannedStartTime # <<>> /\ ~tasks[m].completed}}
  /\ \A j \in 1..Len(tasks), time \in EngineQuickTimes :
       (quickScheduleTask(tasks[j].id, time) /\ toast' = <<"Slot is occupied">>) =>
         QuickOccupied(j, time)

\* C33 as stated: unscheduling a task clears its plannedStartTime and
\* nothing else, and the task is then a candidate of the next run and is
\* not part of the committed set.
C33_UnscheduledIsCandidate ==
  [][\A i \in 1..Len(tasks) :
       unscheduleTask(tasks[i].id) =>
         /\ StartCleared(tasks, tasks', i)
         /\ tasks'[i].plannedStartTime = <<>> /\ ~tasks'[i].completed]_vars

\* C33 amended: unscheduling a task clears its plannedStartTime and nothing
\* else; the task then blocks no slot, and it is a candidate of the next
\* run exactly when it is not completed, since every run takes the
\* non-completed tasks without plannedStartTime as its candidates and the
\* non-completed tasks with one as its committed set, and quick-schedule
\* rejects only on those.
C33_UnscheduleClearsStartOnly ==
  [][/\ \A i \in 1..Len(tasks) :
          unscheduleTask(tasks[i].id) =>
            /\ StartCleared(tasks, tasks', i)
            /\ tasks[i].plannedStartTime # <<>>
     /\ EngineReadsStart]_vars

\* A run started after an unschedule has placed a task again that is not
\* completed.
C33_Witness ==
  /\ pc = "auto"
  /\ toast = <<"Task unscheduled">>
  /\ PlacedIdx # {}


\* C34: in every step of a run the slot scan, when it runs, examines at most
\* 48 candidate start times, whatever the duration of the task.
C34_ScanAtMost48 ==
  [][autoPlace =>
       LET task == sortedUnscheduled[idx]
       IN ~Truthy(strategyA(task, scheduled)) =>
            scanned(workStartMins, durationOr30(task), scheduled) <= 48]_vars


\* C35: a task that is not completed and whose plannedStartTime is
\* malformed counts as unscheduled: a run takes it among its candidates and
\* not into its committed set, and the planner lists it as unscheduled and
\* not on the timeline.
C35_MalformedStartAsUnscheduled ==
  \A i \in 1..Len(tasks) :
    (~tasks[i].completed /\ Malformed(tasks[i].plannedStartTime)) =>
      /\ pc = "auto" =>
           /\ tasks[i].id \in RunIds
           /\ ~Listed(scheduled, tasks[i].id)
      /\ RelevantToday(tasks[i]) =>
           /\ Listed(renderUnscheduled, tasks[i].id)
           /\ ~Listed(renderScheduled, tasks[i].id)


\* C36: a step of a run keeps the number of tasks and every task's id,
\* priority, dueDate, plannedDuration, preferredTime and completed flag; a
\* task that has a start or is completed is left as it is, and the only
\* plannedStartTime that changes is that of the task the step places.
C36_RunWritesPlacedStartOnly ==
  [][/\ Len(tasks') = Len(tasks)
     /\ \A j \in 1..Len(tasks) :
          /\ tasks'[j].id = tasks[j].id
          /\ tasks'[j].priority = tasks[j].priority
          /\ tasks'[j].dueDate = tasks[j].dueDate
          /\ tasks'[j].plannedDuration = tasks[j].plannedDuration
          /\ tasks'[j].preferredTime = tasks[j].preferredTime
          /\ tasks'[j].completed = tasks[j].completed
          /\ (Truthy(tasks[j].plannedStartTime) \/ tasks[j].completed) =>
               tasks'[j] = tasks[j]
          /\ tasks'[j].plannedStartTime # tasks[j].plannedStartTime =>
               /\ pc = "auto" /\ idx <= Len(sortedUnscheduled)
               /\ sortedUnscheduled[idx].id = tasks[j].id
               /\ Truthy(tasks'[j].plannedStartTime)]_vars

\* a run has placed a task in a store that also holds a completed task and
\* a task that had its start before the run
C36_Witness ==
  /\ pc = "auto" /\ scheduledCount > 0
  /\ \E i, j \in 1..Len(tasks) :
       /\ tasks[i].completed
       /\ ~tasks[j].completed /\ Truthy(tasks[j].plannedStartTime)
       /\ tasks[j].id \notin RunIds


\* two intervals overlap iff aStart < bEnd and aEnd > bStart
Overlap(aStart, aEnd, bStart, bEnd) == aStart < bEnd /\ aEnd > bStart
\* [st, st + d) overlaps no non-completed scheduled task of ts
Feasible(ts, st, d) ==
  \A j \in 1..Len(ts) :
    (Active(ts[j]) /\ WellFormed(ts[j].plannedStartTime)) =>
      ~Overlap(st, st + d, IStart(ts[j]), IEnd(ts[j]))
\* the starts 480, 495, ..., 1200 - d
ScanStarts(d) == {st \in 480..(1200 - d) : (st - 480) % 15 = 0}
\* the preferred start of t, when it is a time inside the window
InWindowPreference(t) ==
  IF /\ WellFormed(t.preferredTime)
     /\ ClockMinutes(t.preferredTime) >= 480
     /\ ClockMinutes(t.preferredTime) + IDur(t) <= 1200
  THEN {ClockMinutes(t.preferredTime)}
  ELSE {}
RunCompleted == pc = "idle" /\ toast # <<>>
LeftUnscheduled(t) == ~t.completed /\ ~Truthy(t.plannedStartTime)

\* C37: once a run has completed, no task that is not completed and has no
\* start has a feasible slot: neither a start of the 15-minute scan nor its
\* preferred start inside the window is free of overlap with the
\* non-completed scheduled tasks of the final state.
C37_LeftoverHasNoFeasibleSlot ==
  RunCompleted =>
    \A i \in 1..Len(tasks) :
      LeftUnscheduled(tasks[i]) =>
        \A st \in ScanStarts(IDur(tasks[i])) \cup InWindowPreference(tasks[i]) :
          ~Feasible(tasks, st, IDur(tasks[i]))

\* a completed run has placed a task and left another one, which has a
\* preferred start inside the window, without a start
C37_Witness ==
  /\ RunCompleted
  /\ \E i, j \in 1..Len(tasks) :
       /\ LeftUnscheduled(tasks[i])
       /\ tasks[i].plannedDuration > 0
       /\ InWindowPreference(tasks[i]) # {}
       /\ ScanStarts(IDur(tasks[i])) # {}
       /\ Active(tasks[j])


\* C38: while no resize is under way (resizingTask is null) a pointer move
\* and a pointer up change neither the resize state nor any stored task nor
\* the notice, so no plannedDuration is written.
C38_IdlePointerEventsAreNoOps ==
  [][(/\ resizingTask = Null
      /\ \/ \E y \in ResizeMoveYs : handleResizeMove(y)
         \/ handleResizeEnd) =>
       /\ resizingTask' = Null
       /\ tasks' = tasks
       /\ toast' = toast]_vars

\* no resize is under way after one has ended with a commit, and a task is
\* on the timeline with the committed duration
C38_Witness ==
  /\ resizingTask = Null
  /\ Len(toast) = 2 /\ toast[1] = "Duration updated to"
  /\ \E k \in 1..Len(renderScheduled) : renderScheduled[k].plannedDuration = toast[2]


OverlapFree(ts) == OverlappingPairs(ts) = {}
\* the step toggles a completed task that has a start back to not completed
ReactivatesScheduled ==
  \E i \in 1..Len(tasks) :
    /\ toggleComplete(tasks[i].id)
    /\ tasks[i].completed /\ Truthy(tasks[i].plannedStartTime)
\* the step duplicates a task that has a start
DuplicatesScheduled ==
  \E i \in 1..Len(tasks) :
    /\ duplicateTask(tasks[i].id)
    /\ Truthy(tasks[i].plannedStartTime)

\* a toggle of the completed flag, a duplication, a step of auto-schedule or
\* a quick-schedule
StoreOrPlacementStep ==
  \/ \E id \in TaskIds : toggleComplete(id)
  \/ \E id \in TaskIds : duplicateTask(id)
  \/ NextAuto
  \/ NextQuick

\* C39: from a store without two overlapping non-completed scheduled tasks,
\* a toggle of the completed flag, a duplication, a step of auto-schedule or
\* a quick-schedule never reaches a store with two overlapping non-completed
\* scheduled tasks, so no interleaving of them does.
C39_StoreOperationsKeepOverlapFree ==
  [][(OverlapFree(tasks) /\ StoreOrPlacementStep) => OverlapFree(tasks')]_vars

\* C39 amended: a step from a store without two overlapping non-completed
\* scheduled tasks reaches such a store again, unless it toggles a completed
\* task that has a start back to not completed or duplicates a task that has
\* a start.
C39_OtherStepsKeepOverlapFree ==
  [][(/\ OverlapFree(tasks)
      /\ StoreOrPlacementStep
      /\ ~ReactivatesScheduled
      /\ ~DuplicatesScheduled) => OverlapFree(tasks')]_vars

\* a task without a start was duplicated and a run has then placed the
\* original and the duplicate side by side
C39_Witness ==
  /\ Len(tasks) = 2
  /\ toast = <<"Auto-scheduled", 2>>
  /\ tasks[1].id = 2 /\ tasks[2].id = 1
  /\ Active(tasks[1]) /\ Active(tasks[2])
  /\ tasks[1].priority = tasks[2].priority
  /\ tasks[1].plannedDuration = tasks[2].plannedDuration
  /\ tasks[1].plannedStartTime # tasks[2].plannedStartTime
  /\ OverlapFree(tasks)

====
